---- MODULE Spec2Model ----
(***************************************************************************)
(* CareerAgent: structured extraction from language-model output           *)
(* (core/llm.py) and CV profile construction (core/cv_parser.py).          *)
(*                                                                         *)
(* Texts are sequences of one-character strings.  Positions are 1-based;   *)
(* position 0 stands for Python's -1 ("not found").                        *)
(***************************************************************************)
EXTENDS Integers, Sequences, FiniteSets, TLC

VARIABLES
    response,     \* _clean_json_response: the text passed in
    object,       \* the object embedded in response when it was built around one, else <<>>
    cleaned,      \* _clean_json_response: outcome record once the call has ended
    cpc,          \* _clean_json_response: "ready" | "returned" | "raised"
    pc,           \* generate_json: "idle" | "loop" | "done" | "failed"
    caller,       \* who called generate_json: "direct" | "cv" | "none"
    max_retries,  \* generate_json argument
    t0,           \* generate_json argument temperature, in TempUnit-ths
    attempt,      \* generate_json loop variable
    temperature,  \* generate_json local, in TempUnit-ths
    log,          \* calls received by the text generator, in order, with their outcome
    result,       \* generate_json return value
    error,        \* exception raised by generate_json
    cv_text,      \* parse_text argument, then its truncated local
    cv_in,        \* parse_text argument as passed by the caller
    profile,      \* CVProfile returned by parse_text
    cvpc,         \* parse_text: "idle" | "waiting" | "returned" | "raised"
    qc_kwargs,    \* QualityCheck(...): the keyword arguments of the constructor call
    quality,      \* QualityCheck(...): the object constructed
    qpc,          \* QualityCheck(...): "idle" | "ready" | "built"
    conf_args,    \* _calculate_confidence: email, linkedin, company, snippet
    confidence,   \* _calculate_confidence: the score returned, in tenths
    confpc,       \* _calculate_confidence: "idle" | "ready" | "returned"
    drafts,       \* validate_draft: the EmailDraft objects
    calls,        \* validate_draft: the calls made, each with what it returned
    ppc,          \* personalization: "idle" | "plan" | "email" | "returned" | "raised"
    pvia,         \* personalization: "generate_email" | "whatsapp" | "direct", the method called
    cv_profile,   \* personalization: the CV profile passed in
    plan,         \* personalization: the plan create_personalization_plan returned
    email_draft,  \* personalization: the EmailDraft generate_email returned
    email_error,  \* personalization: the exception that left the method
    llm_calls,    \* personalization: the generate_json calls that have ended
    perm_args,    \* generate_email_permutations: first_name, last_name, domain
    perm_out,     \* generate_email_permutations: the candidates returned, or the exception
    permpc,       \* generate_email_permutations: "idle" | "ready" | "returned" | "raised"
    studio_kwargs,\* EmailDraft(...): the keyword arguments of the constructor call
    current_draft,\* st.session_state.current_draft
    studio_quality,\* draft studio: the QualityCheck shown
    edits,        \* number of runs of the draft studio page
    job_results,  \* search_jobs: the results of the web search
    job_postings, \* search_jobs: the list returned
    jobpc,        \* search_jobs: "idle" | "ready" | "returned" | "raised"
    fc_args,      \* find_contacts arguments
    extracted,    \* the contact that _extract_contact_from_result makes of each search result
    queries,      \* find_contacts: the search queries
    gen_failed,   \* find_contacts: generate_json raised
    qi,           \* find_contacts: index of the next query
    contacts,     \* find_contacts: the list returned
    seen_names,   \* find_contacts: names of the contacts found
    searches,     \* web searches made, in order, with their outcome
    fcpc,         \* find_contacts: "idle" | "ready" | "loop" | "returned"
    role_args,    \* _extract_role arguments
    role_out,     \* _extract_role return value
    rolepc        \* _extract_role: "idle" | "ready" | "returned"

vars == <<response, object, cleaned, cpc, pc, caller, max_retries, t0, attempt,
          temperature, log, result, error, cv_text, cv_in, profile, cvpc,
          qc_kwargs, quality, qpc, conf_args, confidence, confpc,
          drafts, calls, ppc, pvia, cv_profile, plan, email_draft, email_error, llm_calls,
          perm_args, perm_out, permpc,
          studio_kwargs, current_draft, studio_quality, edits,
          job_results, job_postings, jobpc,
          fc_args, extracted, queries, gen_failed, qi, contacts, seen_names, searches, fcpc,
          role_args, role_out, rolepc>>

cleanVars == <<response, object, cleaned, cpc>>
genVars == <<pc, caller, max_retries, t0, attempt, temperature, log, result, error>>
cvVars == <<cv_text, cv_in, profile, cvpc>>
qcVars == <<qc_kwargs, quality, qpc>>
confVars == <<conf_args, confidence, confpc>>
valVars == <<drafts, calls>>
persVars == <<ppc, pvia, cv_profile, plan, email_draft, email_error, llm_calls>>
permVars == <<perm_args, perm_out, permpc>>
studioVars == <<studio_kwargs, current_draft, studio_quality, edits>>
jobVars == <<job_results, job_postings, jobpc>>
fcVars == <<fc_args, extracted, queries, gen_failed, qi, contacts, seen_names, searches, fcpc>>
roleVars == <<role_args, role_out, rolepc>>
otherVars == <<permVars, studioVars, jobVars, fcVars, roleVars>>
restVars == <<qcVars, confVars, valVars, persVars, otherVars>>

-----------------------------------------------------------------------------
(* Bounds *)

MaxPieces == 5          \* pieces concatenated into a free-form response
MaxRetriesBound == 3    \* largest max_retries passed to generate_json

-----------------------------------------------------------------------------
(* Python str primitives used by core/llm.py *)

Min(S) == CHOOSE x \in S : \A y \in S : x <= y
Max(S) == CHOOSE x \in S : \A y \in S : x >= y

IsSpace(c) == c \in {" ", "\n", "\t"}

\* str.strip()
Strip(s) ==
    LET keep == {i \in 1..Len(s) : ~IsSpace(s[i])}
    IN  IF keep = {} THEN <<>> ELSE SubSeq(s, Min(keep), Max(keep))

UpperLetters ==
    <<"A", "B", "C", "D", "E", "F", "G", "H", "I", "J", "K", "L", "M",
      "N", "O", "P", "Q", "R", "S", "T", "U", "V", "W", "X", "Y", "Z">>

LowerLetters ==
    <<"a", "b", "c", "d", "e", "f", "g", "h", "i", "j", "k", "l", "m",
      "n", "o", "p", "q", "r", "s", "t", "u", "v", "w", "x", "y", "z">>

LowerChar(c) ==
    IF \E k \in 1..Len(UpperLetters) : UpperLetters[k] = c
    THEN LowerLetters[CHOOSE k \in 1..Len(UpperLetters) : UpperLetters[k] = c]
    ELSE c

\* str.lower()
Lower(s) == [i \in 1..Len(s) |-> LowerChar(s[i])]

\* str.startswith(p)
StartsWith(s, p) == Len(s) >= Len(p) /\ SubSeq(s, 1, Len(p)) = p

\* s[n:]
From(s, n) == SubSeq(s, n + 1, Len(s))

\* s occurs in t at position i
OccursAt(t, s, i) == i + Len(s) - 1 <= Len(t) /\ SubSeq(t, i, i + Len(s) - 1) = s

\* s in t
Contains(t, s) == \E i \in 1..Len(t) : OccursAt(t, s, i)

\* str.find(c): first position of character c, 0 when absent
Find(s, c) ==
    LET at == {i \in 1..Len(s) : s[i] = c}
    IN  IF at = {} THEN 0 ELSE Min(at)

RECURSIVE SplitFrom(_, _, _, _, _)
SplitFrom(s, sep, i, cur, acc) ==
    IF i > Len(s) THEN Append(acc, cur)
    ELSE IF OccursAt(s, sep, i)
         THEN SplitFrom(s, sep, i + Len(sep), <<>>, Append(acc, cur))
         ELSE SplitFrom(s, sep, i + 1, Append(cur, s[i]), acc)

\* str.split(sep): non-overlapping occurrences, left to right
Split(s, sep) == SplitFrom(s, sep, 1, <<>>, <<>>)

-----------------------------------------------------------------------------
(* LocalLLMClient._clean_json_response *)

\* The backquote character is written "~": a TLA+ string cannot hold a backquote.
Backquote == "~"
Fence == <<Backquote, Backquote, Backquote>>
JsonTag == <<"j", "s", "o", "n">>

preambles ==
    << <<"h", "e", "r", "e", "'", "s", " ", "t", "h", "e", " ", "j", "s", "o", "n", ":">>,
       <<"h", "e", "r", "e", " ", "i", "s", " ", "t", "h", "e", " ", "j", "s", "o", "n", ":">>,
       <<"j", "s", "o", "n", ":">>,
       <<"o", "u", "t", "p", "u", "t", ":">> >>

\* for pre in preambles: if response.lower().startswith(pre): response = response[len(pre):].strip()
RECURSIVE StripPreambles(_, _)
StripPreambles(s, k) ==
    IF k > Len(preambles) THEN s
    ELSE IF StartsWith(Lower(s), preambles[k])
         THEN StripPreambles(Strip(From(s, Len(preambles[k]))), k + 1)
         ELSE StripPreambles(s, k + 1)

\* if response.strip().lower().startswith("json"): response = response.strip()[4:].strip()
DropLanguageTag(s) ==
    IF StartsWith(Lower(Strip(s)), JsonTag) THEN Strip(From(Strip(s), 4)) ELSE s

\* The part of the fenced text the object is looked for in: parts[1]
FencedPart(parts) == parts[2]

\* if "```" in response: parts = response.split("```"); if len(parts) >= 3: ...
StripFences(s) ==
    IF Contains(s, Fence)
    THEN LET parts == Split(s, Fence)
         IN  IF Len(parts) >= 3 THEN DropLanguageTag(FencedPart(parts)) ELSE s
    ELSE s

\* The text the brace scan runs on
Prepared(text) == StripFences(StripPreambles(Strip(text), 1))

\* A scan that stops at the first closing brace, whatever the depth
RECURSIVE ScanToFirstClose(_, _, _, _)
ScanToFirstClose(s, i, brace_count, steps) ==
    IF i > Len(s) THEN [end |-> 0, steps |-> steps]
    ELSE IF s[i] = "}" THEN [end |-> i, steps |-> steps + 1]
    ELSE ScanToFirstClose(s, i + 1, brace_count, steps + 1)

\* for i in range(start, len(response)): count braces, stop where the count is back at zero
RECURSIVE ScanFrom(_, _, _, _)
ScanFrom(s, i, brace_count, steps) ==
    IF i > Len(s) THEN [end |-> 0, steps |-> steps]
    ELSE IF s[i] = "{" THEN ScanFrom(s, i + 1, brace_count + 1, steps + 1)
    ELSE IF s[i] = "}"
         THEN IF brace_count - 1 = 0
              THEN [end |-> i, steps |-> steps + 1]
              ELSE ScanFrom(s, i + 1, brace_count - 1, steps + 1)
    ELSE ScanFrom(s, i + 1, brace_count, steps + 1)

\* An extraction that returns the rest of the text when no brace closes the object
ExtractObjectPartial(s) ==
    LET start == Find(s, "{")
    IN  IF start = 0
        THEN [ok |-> FALSE, value |-> <<>>, err |-> "No JSON object found in response",
              steps |-> 0]
        ELSE LET scan == ScanFrom(s, start, 0, 0)
             IN  [ok |-> TRUE,
                  value |-> SubSeq(s, start, IF scan.end = 0 THEN Len(s) ELSE scan.end),
                  err |-> "", steps |-> scan.steps]

\* Find JSON object boundaries in the prepared text
ExtractObject(s) ==
    LET start == Find(s, "{")
    IN  IF start = 0
        THEN [ok |-> FALSE, value |-> <<>>, err |-> "No JSON object found in response",
              steps |-> 0]
        ELSE LET scan == ScanFrom(s, start, 0, 0)
             IN  IF scan.end = 0
                 THEN [ok |-> FALSE, value |-> <<>>,
                       err |-> "Malformed JSON: no matching closing brace",
                       steps |-> scan.steps]
                 ELSE [ok |-> TRUE, value |-> SubSeq(s, start, scan.end), err |-> "",
                       steps |-> scan.steps]

CleanJsonResponse(text) == ExtractObject(Prepared(text))

-----------------------------------------------------------------------------
(* json.loads on an extracted object.  The grammar is JSON restricted to the   *)
(* characters the generator outputs below are made of: objects, strings        *)
(* without escapes, unsigned integers, blanks.                                  *)

Digits == {"0", "1", "2", "3", "4", "5", "6", "7", "8", "9"}

\* First position at or after i that holds no blank (Len(s) + 1 when there is none)
SkipBlanks(s, i) ==
    LET at == {j \in i..Len(s) : ~IsSpace(s[j])}
    IN  IF at = {} THEN Len(s) + 1 ELSE Min(at)

\* Position after the string literal opening at i, 0 when it is not terminated
AfterString(s, i) ==
    LET at == {j \in (i + 1)..Len(s) : s[j] = "\""}
    IN  IF at = {} THEN 0 ELSE Min(at) + 1

\* Position after the run of digits starting at i
AfterNumber(s, i) ==
    LET at == {j \in i..Len(s) : s[j] \notin Digits}
    IN  IF at = {} THEN Len(s) + 1 ELSE Min(at)

RECURSIVE AfterValue(_, _)
RECURSIVE AfterMembers(_, _)

\* Position after the object opening at i, 0 on a syntax error
AfterObject(s, i) ==
    LET j == SkipBlanks(s, i + 1)
    IN  IF j > Len(s) THEN 0
        ELSE IF s[j] = "}" THEN j + 1
        ELSE AfterMembers(s, j)

\* Position after the value starting at i, 0 on a syntax error
AfterValue(s, i) ==
    IF i > Len(s) THEN 0
    ELSE IF s[i] = "{" THEN AfterObject(s, i)
    ELSE IF s[i] = "\"" THEN AfterString(s, i)
    ELSE IF s[i] \in Digits THEN AfterNumber(s, i)
    ELSE 0

\* Position after the closing brace of the member list starting at i, 0 on a syntax error
AfterMembers(s, i) ==
    IF i > Len(s) \/ s[i] # "\"" THEN 0
    ELSE LET k == AfterString(s, i)
             c == IF k = 0 THEN 0 ELSE SkipBlanks(s, k)
         IN  IF k = 0 \/ c > Len(s) \/ s[c] # ":" THEN 0
             ELSE LET v == AfterValue(s, SkipBlanks(s, c + 1))
                      m == IF v = 0 THEN 0 ELSE SkipBlanks(s, v)
                  IN  IF v = 0 \/ m > Len(s) THEN 0
                      ELSE IF s[m] = "}" THEN m + 1
                      ELSE IF s[m] = "," THEN AfterMembers(s, SkipBlanks(s, m + 1))
                      ELSE 0

\* The top-level members of a well-formed object, in order: key without its quotes,
\* value as written
RECURSIVE MembersFrom(_, _)
MembersFrom(s, i) ==
    IF s[i] # "\"" THEN <<>>
    ELSE LET k == AfterString(s, i)
             c == SkipBlanks(s, k)
             b == SkipBlanks(s, c + 1)
             v == AfterValue(s, b)
             m == SkipBlanks(s, v)
             member == [key |-> SubSeq(s, i + 1, k - 2), value |-> SubSeq(s, b, v - 1)]
         IN  IF s[m] = "," THEN <<member>> \o MembersFrom(s, SkipBlanks(s, m + 1))
             ELSE <<member>>

\* A dict as the set of its (key, value) items; a repeated key keeps its last value
DictOf(members) ==
    {<<members[i].key, members[i].value>> : i \in
        {i \in 1..Len(members) :
            \A j \in (i + 1)..Len(members) : members[j].key # members[i].key}}

None == [none |-> TRUE, items |-> {}]

\* json.loads(cleaned): ok is FALSE for json.JSONDecodeError
JsonLoads(s) ==
    IF s # <<>> /\ s[1] = "{" /\ AfterObject(s, 1) # 0
       /\ SkipBlanks(s, AfterObject(s, 1)) = Len(s) + 1
    THEN [ok |-> TRUE,
          value |-> [none |-> FALSE, items |-> DictOf(MembersFrom(s, SkipBlanks(s, 2)))]]
    ELSE [ok |-> FALSE, value |-> None]

\* dict lookups
HasKey(d, k) == \E it \in d.items : it[1] = k
Get(d, k) == (CHOOSE it \in d.items : it[1] = k)[2]

-----------------------------------------------------------------------------
(* What the text generator can answer *)

GenTexts ==
    { <<"{", "\"", "a", "\"", ":", "1", "}">>,
      <<" ", "{", "x", "}", " ">>,
      <<"{", "\"", "a", "\"", ":", "\"", "}", "\"", "}">>,
      <<"n", "o", " ", "j", "s", "o", "n">>,
      <<"{", "\"", "a", "\"", ":", "{">>,
      <<"~", "~", "~", "j", "s", "o", "n", "\n", "{", "\"", "s", "u", "m", "m", "a", "r", "y", "\"", ":", " ", "\"", "o", "k", "\"", "}", "\n", "~", "~", "~">>,
      <<"{", "\"", "r", "a", "w", "_", "t", "e", "x", "t", "\"", ":", "\"", "z", "z", "\"", ",", "\"", "s", "u", "m", "m", "a", "r", "y", "\"", ":", "\"", "o", "k", "\"", "}">>,
      <<"{", "\"", "s", "u", "m", "m", "a", "r", "y", "\"", ":", "{", "}", "}">>,
      <<"{", "\"", "a", "\"", ":", "1", ",", "\"", "a", "\"", ":", "2", "}">>,
      <<"{", "\"", "a", "n", "g", "l", "e", "\"", ":", "\"", "i", "m", "p", "a", "c", "t", 
      "\"", "}">>,
      <<"{", "\"", "a", "n", "g", "l", "e", "\"", ":", "{", "}", "}">>,
      <<"{", "\"", "s", "u", "b", "j", "e", "c", "t", "\"", ":", "\"", "H", "i", "\"", ",", 
      "\"", "b", "o", "d", "y", "\"", ":", "\"", "H", "e", "l", "l", "o", "\"", "}">>,
      <<"{", "\"", "b", "o", "d", "y", "\"", ":", "{", "}", "}">> }

TransportErrors == {"timeout", "connection", "status"}

-----------------------------------------------------------------------------
(* Responses handed to _clean_json_response *)

RECURSIVE Flatten(_)
Flatten(ps) == IF ps = <<>> THEN <<>> ELSE Head(ps) \o Flatten(Tail(ps))

Pieces == {Fence, <<"{">>, <<"}">>, <<"x">>, <<" ">>, <<"j", "s", "o", "n", ":">>}

PieceSeqs == UNION {[1..n -> Pieces] : n \in 0..MaxPieces}

FreeResponses == {Flatten(ps) : ps \in PieceSeqs}

\* Text built around one balanced object: prose or a preamble before it, prose after
\* it, bare or inside a pair of code fences
Leads == {<<>>, <<"x", " ">>, <<"H", "e", "r", "e", "'", "s", " ", "t", "h", "e", " ", "J", "S", "O", "N", ":", " ">>, <<"j", "s", "o", "n", ":", " ">>, <<"o", "u", "t", "p", "u", "t", ":", "\n">>}
Objects == {<<"{", "}">>, <<"{", "x", "}">>, <<"{", "{", "}", "}">>, <<"{", "x", "{", "}", "{", "x", "}", "}">>, <<"{", "\"", "a", "\"", ":", "1", "}">>, <<"{", "\"", "a", "\"", ":", "{", "\"", "b", "\"", ":", "1", "}", "}">>}
Trails == {<<>>, <<" ", "x">>, <<"\n">>}
Styles == {"bare", "fenced", "fenced_json", "fenced_inner"}

Wrap(style, lead, obj, trail) ==
    CASE style = "bare" -> lead \o obj \o trail
      [] style = "fenced" -> Fence \o <<"\n">> \o lead \o obj \o trail \o <<"\n">> \o Fence
      [] style = "fenced_json" ->
            Fence \o JsonTag \o <<"\n">> \o lead \o obj \o trail \o <<"\n">> \o Fence
      [] style = "fenced_inner" ->
            lead \o Fence \o JsonTag \o <<"\n">> \o obj \o <<"\n">> \o Fence \o trail

NotCleaned == [ok |-> FALSE, value |-> <<>>, err |-> "", steps |-> 0]

-----------------------------------------------------------------------------
(* State outside a call *)

NoError == [kind |-> "none", msg |-> <<>>]
NoText == [lead |-> 0, core |-> 0, trail |-> 0]
NoProfile == [raw_text |-> NoText, summary |-> <<>>]

CleanIdle ==
    /\ response = <<>>
    /\ object = <<>>
    /\ cleaned = NotCleaned
    /\ cpc = "idle"

GenIdle ==
    /\ pc = "idle"
    /\ caller = "none"
    /\ max_retries = 0
    /\ t0 = 0
    /\ attempt = 0
    /\ temperature = 0
    /\ log = <<>>
    /\ result = None
    /\ error = NoError

CvIdle ==
    /\ cv_text = NoText
    /\ cv_in = NoText
    /\ profile = NoProfile
    /\ cvpc = "idle"

\* A score is the fraction num / den
NoScore == [num |-> 0, den |-> 1]

NoQuality ==
    [has_metric |-> FALSE, has_project_link |-> FALSE, has_company_hook |-> FALSE,
     has_clear_cta |-> FALSE, under_word_limit |-> FALSE, no_emojis |-> FALSE,
     no_bullet_dashes |-> FALSE, score |-> NoScore, issues |-> <<>>, passed |-> FALSE]

QcIdle ==
    /\ qc_kwargs = NoQuality
    /\ quality = NoQuality
    /\ qpc = "idle"

\* An Optional[str]: None, or a text
NoneStr == [none |-> TRUE, text |-> <<>>]
Str(chars) == [none |-> FALSE, text |-> chars]

ConfIdle ==
    /\ conf_args = [email |-> NoneStr, linkedin |-> NoneStr, company |-> <<>>, snippet |-> <<>>]
    /\ confidence = 0
    /\ confpc = "idle"

ValIdle == drafts = <<>> /\ calls = <<>>

PersIdle ==
    /\ ppc = "idle"
    /\ pvia = "none"
    /\ cv_profile = [projects |-> <<>>, skills |-> <<>>]
    /\ plan = [anchor_project |-> [none |-> TRUE, name |-> ""], technical_hook |-> <<>>,
               impact_hook |-> <<>>, company_hook |-> <<>>, shared_technologies |-> <<>>,
               relevant_metrics |-> <<>>, angle |-> <<>>]
    /\ email_draft = [subject |-> <<>>, body |-> <<>>, plan |-> plan]
    /\ email_error = NoError
    /\ llm_calls = <<>>

PermIdle ==
    /\ perm_args = [first_name |-> <<>>, last_name |-> <<>>, domain |-> <<>>]
    /\ perm_out = <<>>
    /\ permpc = "idle"

StudioIdle ==
    /\ studio_kwargs = [subject |-> <<>>, body |-> <<>>, company |-> <<>>, job_title |-> <<>>,
                        word_count |-> 0]
    /\ current_draft = [subject |-> <<>>, body |-> NoneStr, company |-> <<>>, job_title |-> <<>>,
                        word_count |-> 0]
    /\ studio_quality = NoQuality
    /\ edits = 0

JobIdle == job_results = <<>> /\ job_postings = <<>> /\ jobpc = "idle"

FcIdle ==
    /\ fc_args = [company_name |-> <<>>, job_title |-> <<>>, max_results |-> 0]
    /\ extracted = <<>>
    /\ queries = <<>>
    /\ gen_failed = FALSE
    /\ qi = 0
    /\ contacts = <<>>
    /\ seen_names = {}
    /\ searches = <<>>
    /\ fcpc = "idle"

RoleIdle == role_args = [title |-> <<>>, snippet |-> <<>>] /\ role_out = <<>> /\ rolepc = "idle"

OtherIdle == PermIdle /\ StudioIdle /\ JobIdle /\ FcIdle /\ RoleIdle

RestIdle == QcIdle /\ ConfIdle /\ ValIdle /\ PersIdle /\ OtherIdle

-----------------------------------------------------------------------------
(* _clean_json_response called on one response *)

InitClean ==
    /\ \/ response \in FreeResponses /\ object = <<>>
       \/ \E style \in Styles, lead \in Leads, obj \in Objects, trail \in Trails :
             response = Wrap(style, lead, obj, trail) /\ object = obj
    /\ cleaned = NotCleaned
    /\ cpc = "ready"
    /\ GenIdle
    /\ CvIdle
    /\ RestIdle

Clean ==
    /\ cpc = "ready"
    /\ cleaned' = CleanJsonResponse(response)
    /\ cpc' = IF cleaned'.ok THEN "returned" ELSE "raised"
    /\ UNCHANGED <<response, object, genVars, cvVars, restVars>>

NextClean == Clean

SpecClean == InitClean /\ [][NextClean]_vars

-----------------------------------------------------------------------------
(* LocalLLMClient.generate_text and LocalLLMClient.generate_json *)

\* Temperatures are whole numbers of 1/(10 * TempScale): halving stays exact
TempScale == 2 ^ MaxRetriesBound
Temperatures == {2 * TempScale, 3 * TempScale}

DefaultMaxRetries == 2

\* str(e) of the exception generate_text raises
TransportMessage(kind) ==
    CASE kind = "timeout" ->
            << <<"LLM request timed out. Try a smaller model or reduce prompt size.">> >>
      [] kind = "connection" -> << <<"LLM generation failed: ">>, <<"connection refused">> >>
      [] kind = "status" -> << <<"LLM generation failed: ">>, <<"Ollama API error: ">>, <<"500">> >>

\* except json.JSONDecodeError: the exception classes that handler catches
CaughtAllExceptions(exc) == exc \in {"JSONDecodeError", "ValueError", "Exception"}

CaughtAsDecodeError(exc) == exc = "JSONDecodeError"

\* if attempt < max_retries - 1: one attempt more than the code allows
RetryAllowedOnLast(att, retries) == att < retries

RetryAllowed(att, retries) == att < retries - 1

\* temperature *= 0.5, left out
NotHalved(temp) == temp

Halved(temp) == temp \div 2

\* What one pass through the loop body raises or returns for one generator answer:
\* exc is "" when the pass returns parsed
AttemptOutcome(answer) ==
    IF answer.kind # "text"
    THEN [exc |-> "Exception", raw |-> <<>>, msg |-> TransportMessage(answer.kind),
          parsed |-> None, cause |-> "transport"]
    ELSE LET response_text == Strip(answer.text)
             c == CleanJsonResponse(response_text)
         IN  IF ~c.ok
             THEN [exc |-> "ValueError", raw |-> response_text, msg |-> << <<c.err>> >>,
                   parsed |-> None, cause |-> "extraction"]
             ELSE LET d == JsonLoads(c.value)
                  IN  IF ~d.ok
                      THEN [exc |-> "JSONDecodeError", raw |-> response_text,
                            msg |-> << <<"Expecting value">> >>, parsed |-> None,
                            cause |-> "decode"]
                      ELSE [exc |-> "", raw |-> response_text, msg |-> <<>>,
                            parsed |-> d.value, cause |-> "none"]

GenAnswers ==
    {[kind |-> k, text |-> <<>>] : k \in TransportErrors}
        \cup {[kind |-> "text", text |-> x] : x \in GenTexts}

\* The call enters generate_json: for attempt in range(max_retries)
EnterGenerateJson(who, temp, retries) ==
    /\ caller' = who
    /\ max_retries' = retries
    /\ t0' = temp
    /\ temperature' = temp
    /\ attempt' = 0
    /\ log' = <<>>
    /\ error' = NoError
    /\ result' = None
    /\ pc' = IF retries > 0 THEN "loop" ELSE "done"

\* A caller other than the CV parser calls generate_json(prompt, temperature, max_retries)
GenerateJson ==
    /\ pc = "idle"
    /\ cvpc = "idle"
    /\ ppc = "idle"
    /\ \E temp \in Temperatures, retries \in 0..MaxRetriesBound :
          EnterGenerateJson("direct", temp, retries)
    /\ UNCHANGED <<cleanVars, cvVars, restVars>>

\* One pass through the loop body: generate_text, _clean_json_response, json.loads,
\* and the except clauses
Attempt ==
    /\ pc = "loop"
    /\ \E answer \in GenAnswers :
          LET o == AttemptOutcome(answer)
              entry == [temperature |-> temperature, raw |-> o.raw, cause |-> o.cause]
          IN  /\ log' = Append(log, entry)
              /\ IF o.exc = ""
                 THEN /\ result' = o.parsed
                      /\ pc' = "done"
                      /\ UNCHANGED <<attempt, temperature, error>>
                 ELSE IF CaughtAsDecodeError(o.exc)
                 THEN IF RetryAllowed(attempt, max_retries)
                      THEN /\ temperature' = Halved(temperature)
                           /\ attempt' = attempt + 1
                           /\ UNCHANGED <<pc, result, error>>
                      ELSE /\ error' = [kind |-> "exhausted",
                                        msg |-> << <<"Failed to parse JSON after ">>,
                                                   <<ToString(max_retries)>>,
                                                   <<" attempts.">> >>]
                           /\ pc' = "failed"
                           /\ UNCHANGED <<attempt, temperature, result>>
                 ELSE /\ error' = [kind |-> o.cause,
                                   msg |-> << <<"LLM JSON generation failed: ">> >> \o o.msg]
                      /\ pc' = "failed"
                      /\ UNCHANGED <<attempt, temperature, result>>
    /\ UNCHANGED <<caller, max_retries, t0, cleanVars, cvVars, restVars>>

-----------------------------------------------------------------------------
(* CVParser.parse_text *)

(* A CV text is kept by its shape: lead blanks, then core characters of which *)
(* the first and the last are not blank, then trail blanks.                   *)

MinCvChars == 50
MaxCvChars == 12000

TextLen(text) == text.lead + text.core + text.trail

\* len(cv_text.strip())
StrippedLen(text) == text.core

Least(a, b) == IF a <= b THEN a ELSE b

\* cv_text[:n]
Prefix(text, n) ==
    LET l == Least(text.lead, n)
        c == Least(text.core, n - l)
    IN  [lead |-> l, core |-> c, trail |-> Least(text.trail, n - l - c)]

\* if len(cv_text) > 12000: cv_text = cv_text[:12000]
Truncated(text) == IF TextLen(text) > MaxCvChars THEN Prefix(text, MaxCvChars) ELSE text

\* if not cv_text or len(cv_text.strip()) < 50
TooShort(text) == TextLen(text) = 0 \/ StrippedLen(text) < MinCvChars

CvTexts ==
    {[lead |-> l, core |-> c, trail |-> r] :
        l \in {0, 1, MaxCvChars},
        c \in {0, MinCvChars - 1, MinCvChars, MaxCvChars, MaxCvChars + 1},
        r \in {0, 1}}

\* self.llm.generate_json(prompt, temperature=0.2)
CvTemperature == 2 * TempScale

RawTextKey == <<"r", "a", "w", "_", "t", "e", "x", "t">>
SummaryKey == <<"s", "u", "m", "m", "a", "r", "y">>

\* The shape of a text given by its characters
ShapeOf(chars) ==
    LET keep == {i \in 1..Len(chars) : ~IsSpace(chars[i])}
    IN  IF keep = {} THEN [lead |-> Len(chars), core |-> 0, trail |-> 0]
        ELSE [lead |-> Min(keep) - 1, core |-> Max(keep) - Min(keep) + 1,
              trail |-> Len(chars) - Max(keep)]

IsStringLiteral(v) == Len(v) >= 2 /\ v[1] = "\"" /\ v[Len(v)] = "\""
StringBody(v) == SubSeq(v, 2, Len(v) - 1)

\* The raw_text of the model's answer kept when it has one
RawTextKept(cv_data, text) ==
    IF HasKey(cv_data, RawTextKey) /\ IsStringLiteral(Get(cv_data, RawTextKey))
    THEN ShapeOf(StringBody(Get(cv_data, RawTextKey)))
    ELSE text

\* cv_data["raw_text"] = cv_text: the raw_text CVProfile(**cv_data) is built with
RawTextOf(cv_data, text) == text

\* CVProfile(**cv_data) validates: summary is Optional[str]; raw_text has just been
\* set to a str.  The other fields are left out of the generator's answers.
CVProfileValid(cv_data) ==
    HasKey(cv_data, SummaryKey) => IsStringLiteral(Get(cv_data, SummaryKey))

\* A fallback that drops the text
FallbackWithoutText(text, reason) ==
    [raw_text |-> NoText,
     summary |-> << <<"CV parsing failed: ">> >> \o reason \o << <<". Using raw text.">> >>]

\* CVProfile(raw_text=cv_text, summary=f"CV parsing failed: {str(e)}. Using raw text.")
FallbackProfile(text, reason) ==
    [raw_text |-> text,
     summary |-> << <<"CV parsing failed: ">> >> \o reason \o << <<". Using raw text.">> >>]

\* parse_text up to its generate_json call
ParseText ==
    /\ cvpc = "idle"
    /\ pc = "idle"
    /\ ppc = "idle"
    /\ \E text \in CvTexts :
          /\ cv_in' = text
          /\ IF TooShort(text)
             THEN /\ cvpc' = "raised"
                  /\ cv_text' = text
                  /\ UNCHANGED genVars
             ELSE /\ cvpc' = "waiting"
                  /\ cv_text' = Truncated(text)
                  /\ EnterGenerateJson("cv", CvTemperature, DefaultMaxRetries)
    /\ UNCHANGED <<profile, cleanVars, restVars>>

\* parse_text from the return of generate_json, or from the exception it raised
ParseTextReturn ==
    /\ cvpc = "waiting"
    /\ pc \in {"done", "failed"}
    /\ profile' =
          IF pc = "failed" THEN FallbackProfile(cv_text, error.msg)
          ELSE IF result.none
          THEN FallbackProfile(cv_text,
                   << <<"'NoneType' object does not support item assignment">> >>)
          ELSE IF ~CVProfileValid(result)
          THEN FallbackProfile(cv_text, << <<"1 validation error for CVProfile">> >>)
          ELSE [raw_text |-> RawTextOf(result, cv_text),
                summary |-> IF HasKey(result, SummaryKey)
                            THEN <<StringBody(Get(result, SummaryKey))>>
                            ELSE <<>>]
    /\ cvpc' = "returned"
    /\ UNCHANGED <<cv_text, cv_in, genVars, cleanVars, restVars>>

-----------------------------------------------------------------------------
(* PersonalizationEngine (core/personalization.py) *)

\* self.llm.generate_json(prompt, temperature=0.4) and (prompt, temperature=0.6)
PlanTemperature == 4 * TempScale
EmailTemperature == 6 * TempScale
WhatsappTemperature == 5 * TempScale

AngleKey == <<"a", "n", "g", "l", "e">>
SubjectKey == <<"s", "u", "b", "j", "e", "c", "t">>
BodyKey == <<"b", "o", "d", "y">>

DefaultAngle == <<"t", "e", "c", "h", "n", "i", "c", "a", "l">>

NoProject == [none |-> TRUE, name |-> ""]
Project(n) == [none |-> FALSE, name |-> n]

NoPlan ==
    [anchor_project |-> NoProject, technical_hook |-> <<>>, impact_hook |-> <<>>,
     company_hook |-> <<>>, shared_technologies |-> <<>>, relevant_metrics |-> <<>>,
     angle |-> <<>>]

\* The job posting the messages are written for
Job == [title |-> "ML Engineer", company |-> "TechCo"]

\* The projects and skills of a CV profile
Profiles ==
    {[projects |-> p, skills |-> s] :
        p \in {<<>>, <<"optimizer", "tracker">>},
        s \in {<<>>, <<"python", "go">>, <<"python", "go", "sql", "rust">>}}

\* xs[:n]
FirstN(xs, n) == SubSeq(xs, 1, Least(n, Len(xs)))

\* ", ".join(xs)
RECURSIVE JoinComma(_)
JoinComma(xs) ==
    IF xs = <<>> THEN <<>>
    ELSE IF Len(xs) = 1 THEN xs
    ELSE <<Head(xs), ", ">> \o JoinComma(Tail(xs))

TopSkills == 3

\* A fallback that lists every skill
FallbackPlanAllSkills(cv, job) ==
    [anchor_project |-> IF cv.projects # <<>> THEN Project(cv.projects[1]) ELSE NoProject,
     technical_hook |-> <<"Experience with ">> \o JoinComma(cv.skills),
     impact_hook |-> <<"Track record of delivering impactful solutions">>,
     company_hook |-> <<"Interested in ", job.title, " role">>,
     shared_technologies |-> cv.skills,
     relevant_metrics |-> <<>>,
     angle |-> DefaultAngle]

\* _create_fallback_plan
FallbackPlan(cv, job) ==
    [anchor_project |-> IF cv.projects # <<>> THEN Project(cv.projects[1]) ELSE NoProject,
     technical_hook |-> <<"Experience with ">> \o JoinComma(FirstN(cv.skills, TopSkills)),
     impact_hook |-> <<"Track record of delivering impactful solutions">>,
     company_hook |-> <<"Interested in ", job.title, " role">>,
     shared_technologies |-> FirstN(cv.skills, TopSkills),
     relevant_metrics |-> <<>>,
     angle |-> DefaultAngle]

\* PersonalizationPlan(**plan_data) validates: angle is a str.  The other fields are
\* left out of the generator's answers and take their defaults.
PlanValid(plan_data) ==
    ~plan_data.none /\ (HasKey(plan_data, AngleKey) => IsStringLiteral(Get(plan_data, AngleKey)))

PlanOf(plan_data) ==
    [NoPlan EXCEPT !.angle = IF HasKey(plan_data, AngleKey)
                             THEN StringBody(Get(plan_data, AngleKey))
                             ELSE DefaultAngle]

\* EmailDraft(subject=..., body=..., ...) validates: subject and body are str
EmailDraftValid(email_data) ==
    /\ HasKey(email_data, SubjectKey) => IsStringLiteral(Get(email_data, SubjectKey))
    /\ HasKey(email_data, BodyKey) => IsStringLiteral(Get(email_data, BodyKey))

\* subject=email_data.get("subject", f"Re: {job_posting.title}"), body=email_data.get("body", "")
EmailDraftOf(email_data, job, p) ==
    [subject |-> IF HasKey(email_data, SubjectKey)
                 THEN StringBody(Get(email_data, SubjectKey))
                 ELSE <<"Re: ", job.title>>,
     body |-> IF HasKey(email_data, BodyKey) THEN StringBody(Get(email_data, BodyKey))
              ELSE <<>>,
     plan |-> p]

\* What the try block of create_personalization_plan raised, "" when it returned
PlanFailure == IF pc = "failed" THEN error.kind ELSE IF ~PlanValid(result) THEN "validation" ELSE ""

\* An except clause that lets the errors of the transport through
CaughtUnlessTransport(kind) == kind \in {"exhausted", "extraction", "validation"}

\* except Exception as e: return self._create_fallback_plan(cv_profile, job_posting)
CaughtAsException(kind) == kind \in {"exhausted", "transport", "extraction", "validation"}

\* The replacement fields of WHATSAPP_DRAFT_PROMPT, in the order of the template
WhatsappPromptFields ==
    <<"job_title", "company_name", "candidate_name", "anchor_project", "metric", "link",
      "candidate_name", "project", "metric", "job_title", "company_name">>

\* The keyword arguments of WHATSAPP_DRAFT_PROMPT.format(...)
WhatsappPromptKwargs(cv, job, p) ==
    [job_title |-> job.title,
     company_name |-> job.company,
     candidate_name |-> "I",
     anchor_project |-> IF p.anchor_project.none THEN "a project" ELSE p.anchor_project.name,
     metric |-> IF p.relevant_metrics # <<>> THEN p.relevant_metrics[1]
                ELSE "relevant experience",
     link |-> ""]

\* str.format(**kwargs): the values of the fields in order; KeyError for the first
\* field that is no keyword
FormatPrompt(fields, kwargs) ==
    LET missing == {i \in 1..Len(fields) : fields[i] \notin DOMAIN kwargs}
    IN  IF missing # {}
        THEN [raised |-> TRUE, key |-> fields[Min(missing)], values |-> <<>>]
        ELSE [raised |-> FALSE, key |-> "", values |-> [i \in 1..Len(fields) |-> kwargs[fields[i]]]]

\* create_personalization_plan, called by generate_email, by
\* generate_whatsapp_message or on its own, up to its
\* generate_json call
CreatePersonalizationPlan ==
    /\ ppc = "idle"
    /\ pc = "idle"
    /\ cvpc = "idle"
    /\ \E cv \in Profiles, via \in {"generate_email", "whatsapp", "direct"} :
          /\ cv_profile' = cv
          /\ pvia' = via
    /\ ppc' = "plan"
    /\ EnterGenerateJson("plan", PlanTemperature, DefaultMaxRetries)
    /\ UNCHANGED <<plan, email_draft, email_error, llm_calls, cleanVars, cvVars, qcVars, confVars,
                   valVars, otherVars>>

\* create_personalization_plan from the return of generate_json, or from the
\* exception it raised; in generate_email, on to the generate_json call for the
\* email_draft; in generate_whatsapp_message, on to the formatting of the prompt
CreatePersonalizationPlanReturn ==
    /\ ppc = "plan"
    /\ pc \in {"done", "failed"}
    /\ llm_calls' = Append(llm_calls, [who |-> "plan", temperature |-> t0,
                                       failure |-> PlanFailure])
    /\ IF PlanFailure # "" /\ ~CaughtAsException(PlanFailure)
       THEN /\ ppc' = "raised"
            /\ email_error' = error
            /\ UNCHANGED <<plan, genVars>>
       ELSE /\ plan' = IF PlanFailure = "" THEN PlanOf(result)
                       ELSE FallbackPlan(cv_profile, Job)
            /\ CASE pvia = "direct" ->
                       /\ ppc' = "returned"
                       /\ UNCHANGED <<email_error, genVars>>
                 [] pvia = "generate_email" ->
                       /\ ppc' = "email"
                       /\ EnterGenerateJson("email", EmailTemperature, DefaultMaxRetries)
                       /\ UNCHANGED email_error
                 [] pvia = "whatsapp" ->
                       LET prompt == FormatPrompt(WhatsappPromptFields,
                                                  WhatsappPromptKwargs(cv_profile, Job, plan'))
                       IN  IF prompt.raised
                           THEN /\ ppc' = "raised"
                                /\ email_error' = [kind |-> "KeyError",
                                                   msg |-> << <<prompt.key>> >>]
                                /\ UNCHANGED genVars
                           ELSE /\ ppc' = "whatsapp"
                                /\ EnterGenerateJson("whatsapp", WhatsappTemperature,
                                                     DefaultMaxRetries)
                                /\ UNCHANGED email_error
    /\ UNCHANGED <<cv_profile, pvia, email_draft, cleanVars, cvVars, qcVars, confVars, valVars,
                   otherVars>>

\* generate_email from the return of its generate_json call, or from the exception
\* it raised
GenerateEmailReturn ==
    /\ ppc = "email"
    /\ pc \in {"done", "failed"}
    /\ llm_calls' = Append(llm_calls, [who |-> "email", temperature |-> t0,
                                       failure |-> IF pc = "failed" THEN error.kind ELSE ""])
    /\ IF pc = "failed"
       THEN /\ ppc' = "raised"
            /\ email_error' = [kind |-> error.kind,
                               msg |-> << <<"Email generation failed: ">> >> \o error.msg]
            /\ UNCHANGED email_draft
       ELSE IF ~EmailDraftValid(result)
       THEN /\ ppc' = "raised"
            /\ email_error' = [kind |-> "validation",
                               msg |-> << <<"Email generation failed: ">>,
                                          <<"1 validation error for EmailDraft">> >>]
            /\ UNCHANGED email_draft
       ELSE /\ ppc' = "returned"
            /\ email_draft' = EmailDraftOf(result, Job, plan)
            /\ UNCHANGED email_error
    /\ UNCHANGED <<cv_profile, pvia, plan, genVars, cleanVars, cvVars, qcVars, confVars,
                   valVars, otherVars>>

-----------------------------------------------------------------------------
(* generate_json called directly, by parse_text or by the personalization engine *)

Init == CleanIdle /\ GenIdle /\ CvIdle /\ RestIdle

Next ==
    \/ GenerateJson
    \/ Attempt
    \/ ParseText
    \/ ParseTextReturn
    \/ CreatePersonalizationPlan
    \/ CreatePersonalizationPlanReturn
    \/ GenerateEmailReturn

Spec == Init /\ [][Next]_vars

-----------------------------------------------------------------------------
(* Properties of _clean_json_response *)

\* C6: for a text built around one balanced object (prose or a preamble before it,
\* prose after it, bare or inside code fences) the call returns exactly the object,
\* from its opening brace to the matching closing brace.
ObjectSpanReturned ==
    (object # <<>> /\ cpc # "ready") => (cpc = "returned" /\ cleaned.value = object)

NestedFencedObjectCleaned ==
    /\ cpc = "returned"
    /\ object = <<"{", "x", "{", "}", "{", "x", "}", "}">>
    /\ Contains(response, Fence)
    /\ response # object
    /\ cleaned.value = object

\* Number of fence markers str.split sees
FenceCount(s) == Len(Split(s, Fence)) - 1

\* The content strictly between the first and the last fence marker
BetweenFirstAndLastFence(s) ==
    LET at == {i \in 1..Len(s) : OccursAt(s, Fence, i)}
    IN  SubSeq(s, Min(at) + Len(Fence), Max(at) - 1)

\* C7: with two or more fence markers in the text, the object is looked for in the
\* content strictly between the first and the last marker.
ObjectSoughtBetweenFirstAndLastFence ==
    LET s == StripPreambles(Strip(response), 1)
    IN  (cpc # "ready" /\ FenceCount(s) >= 2) =>
            LET want == ExtractObject(DropLanguageTag(BetweenFirstAndLastFence(s)))
            IN  cleaned.ok = want.ok /\ cleaned.value = want.value

Count(s, c, a, b) == Cardinality({i \in a..b : s[i] = c})

\* The depth opened at position start is back at zero at some later position
DepthReturnsToZero(s, start) ==
    \E j \in start..Len(s) : Count(s, "{", start, j) = Count(s, "}", start, j)

\* C8: a string is returned only when the prepared text has a '{' whose depth later
\* returns to zero; otherwise the call raises, returns no partial string, and the
\* scan reads each character of the text at most once.
ExtractionFailsClosed ==
    cpc # "ready" =>
        LET s == Prepared(response)
            start == Find(s, "{")
        IN  /\ (cpc = "returned") <=> (start # 0 /\ DepthReturnsToZero(s, start))
            /\ cpc = "raised" => (cleaned.value = <<>> /\ cleaned.err # "")
            /\ cpc = "returned" =>
                  /\ OccursAt(s, cleaned.value, start)
                  /\ Count(cleaned.value, "{", 1, Len(cleaned.value))
                        = Count(cleaned.value, "}", 1, Len(cleaned.value))
            /\ cleaned.steps <= Len(s)

UnmatchedBraceRaised ==
    /\ cpc = "raised"
    /\ Find(Prepared(response), "{") # 0
    /\ cleaned.steps > 1
    /\ cleaned.value = <<>>

-----------------------------------------------------------------------------
(* Properties of generate_json *)

\* C1: the generator is called at most max_retries times, and the first attempt whose
\* output is extracted and deserialized is the last call: its mapping is returned.
GeneratorCallsBoundedAndStopOnSuccess ==
    pc # "idle" =>
        /\ Len(log) <= max_retries
        /\ \A k \in 1..Len(log) :
              log[k].cause = "none" =>
                  /\ k = Len(log)
                  /\ pc = "done"
                  /\ result = JsonLoads(CleanJsonResponse(log[k].raw).value).value

ReturnedOnSecondOfThree ==
    /\ pc = "done"
    /\ max_retries = 3
    /\ Len(log) = 2
    /\ log[1].cause = "decode"
    /\ log[2].cause = "none"
    /\ ~result.none

\* C2: an attempt whose output fails extraction is followed by another generator call
\* while attempts are left: generate_json fails on an extraction failure only when
\* that was attempt number max_retries.
ExtractionFailureRetried ==
    (pc = "failed" /\ log # <<>> /\ log[Len(log)].cause = "extraction") =>
        Len(log) = max_retries

\* C3: a transport error of the generator on the k-th attempt ends generate_json at
\* once with that error, after exactly k generator calls.
TransportErrorNotRetried ==
    \A k \in 1..Len(log) :
        log[k].cause = "transport" =>
            /\ k = Len(log)
            /\ pc = "failed"
            /\ error.kind = "transport"
            /\ Len(log) = attempt + 1

TransportErrorOnSecondOfThree ==
    /\ pc = "failed"
    /\ error.kind = "transport"
    /\ max_retries = 3
    /\ Len(log) = 2
    /\ log[2].cause = "transport"

\* C4: when all max_retries attempts fail to deserialize, the error raised carries the
\* raw output of the last attempt.
ExhaustedErrorCarriesLastRaw ==
    (pc = "failed" /\ error.kind = "exhausted") =>
        \E i \in 1..Len(error.msg) : error.msg[i] = log[Len(log)].raw

\* C5: attempt k (from 0) is made with temperature t0 / 2^k; the temperature is halved
\* once per deserialization failure that is followed by a retry and by nothing else,
\* so it never increases from one attempt to the next.
TemperatureHalvedPerRetry ==
    pc # "idle" =>
        /\ \A k \in 1..Len(log) : log[k].temperature * 2 ^ (k - 1) = t0
        /\ \A k \in 1..(Len(log) - 1) : log[k + 1].temperature <= log[k].temperature
        /\ temperature * 2 ^ attempt = t0
        /\ attempt = Cardinality({k \in 1..Len(log) :
                                    log[k].cause = "decode" /\ (k < Len(log) \/ pc = "loop")})

ThirdAttemptAtQuarterTemperature ==
    /\ Len(log) = 3
    /\ t0 > 0
    /\ log[1].temperature = t0
    /\ log[3].temperature * 4 = t0

-----------------------------------------------------------------------------
(* Properties of parse_text *)

\* C9 as stated: parse_text never raises, for any input text.
ParseTextNeverRaises == cvpc # "raised"

\* C9 amended: parse_text raises only for a text that is empty or shorter than 50
\* characters once stripped; for every other text, a failure of generation, extraction
\* or validation yields a minimal profile with the text and a summary giving the reason.
ParseTextDegradesUnlessTooShort ==
    /\ cvpc = "raised" => (TextLen(cv_in) = 0 \/ StrippedLen(cv_in) < MinCvChars)
    /\ cvpc \in {"waiting", "returned"} => StrippedLen(cv_in) >= MinCvChars
    /\ (cvpc = "returned" /\ (pc = "failed" \/ ~CVProfileValid(result))) =>
          /\ profile.raw_text = cv_text
          /\ TextLen(profile.raw_text) > 0
          /\ Len(profile.summary) >= 3
          /\ profile.summary[1] = <<"CV parsing failed: ">>
          /\ pc = "failed" =>
                SubSeq(profile.summary, 2, Len(profile.summary) - 1) = error.msg

FallbackProfileAfterExtractionFailure ==
    /\ cvpc = "returned"
    /\ pc = "failed"
    /\ error.kind = "extraction"
    /\ profile.raw_text = cv_text
    /\ profile.summary[1] = <<"CV parsing failed: ">>

\* C10: every profile parse_text returns has a non-empty raw_text equal to the first
\* 12000 characters of the input text, whatever raw_text the model's answer held.
ProfileRawTextIsInputText ==
    cvpc = "returned" =>
        /\ profile.raw_text = Prefix(cv_in, MaxCvChars)
        /\ TextLen(profile.raw_text) > 0

AnswerRawTextOverridden ==
    /\ cvpc = "returned"
    /\ pc = "done"
    /\ HasKey(result, RawTextKey)
    /\ CVProfileValid(result)
    /\ TextLen(cv_in) > MaxCvChars
    /\ TextLen(profile.raw_text) = MaxCvChars

-----------------------------------------------------------------------------
(* QualityCheck (core/models.py): construction with its two validators *)

CheckNames ==
    <<"has_metric", "has_project_link", "has_company_hook", "has_clear_cta",
      "under_word_limit", "no_emojis", "no_bullet_dashes">>

\* sum(checks): the number of checks that are True
TrueCount(values) == Cardinality({i \in 1..Len(CheckNames) : values[CheckNames[i]]})

PassScore == 70

\* A validator that keeps the value the caller supplied
SuppliedScore(v, values) == v

\* @validator("score", always=True): sum(checks) / len(checks) * 100
CalculateScore(v, values) == [num |-> TrueCount(values) * 100, den |-> Len(CheckNames)]

\* @validator("passed", always=True): values.get("score", 0) >= 70.0
CheckPassed(v, values) == values.score.num >= PassScore * values.score.den

\* QualityCheck(**kwargs): fields are validated in declaration order
QualityCheckOf(kwargs) ==
    LET scored == [kwargs EXCEPT !.score = CalculateScore(kwargs.score, kwargs)]
    IN  [scored EXCEPT !.passed = CheckPassed(kwargs.passed, scored)]

QualityKwargs ==
    {[has_metric |-> b[1], has_project_link |-> b[2], has_company_hook |-> b[3],
      has_clear_cta |-> b[4], under_word_limit |-> b[5], no_emojis |-> b[6],
      no_bullet_dashes |-> b[7], score |-> sc, issues |-> <<>>, passed |-> pa] :
        b \in [1..7 -> BOOLEAN], sc \in {NoScore, [num |-> 100, den |-> 1]},
        pa \in BOOLEAN}

InitQuality ==
    /\ qc_kwargs \in QualityKwargs
    /\ quality = NoQuality
    /\ qpc = "ready"
    /\ CleanIdle
    /\ GenIdle
    /\ CvIdle
    /\ ConfIdle
    /\ ValIdle
    /\ PersIdle
    /\ OtherIdle

BuildQualityCheck ==
    /\ qpc = "ready"
    /\ quality' = QualityCheckOf(qc_kwargs)
    /\ qpc' = "built"
    /\ UNCHANGED <<qc_kwargs, cleanVars, genVars, cvVars, confVars, valVars, persVars, otherVars>>

NextQuality == BuildQualityCheck

SpecQuality == InitQuality /\ [][NextQuality]_vars

\* C13: score = (number of true checks / 7) * 100 whatever score and passed the caller
\* supplies, and passed holds exactly when at least 5 of the 7 checks are true.
ScoreAndPassedDerived ==
    qpc = "built" =>
        /\ quality.score.num * 7 = TrueCount(qc_kwargs) * 100 * quality.score.den
        /\ quality.passed <=> TrueCount(qc_kwargs) >= 5
        /\ \A i \in 1..Len(CheckNames) : quality[CheckNames[i]] = qc_kwargs[CheckNames[i]]

FourChecksSuppliedPassedNotPassed ==
    /\ qpc = "built"
    /\ TrueCount(qc_kwargs) = 4
    /\ qc_kwargs.passed
    /\ qc_kwargs.score.num = 100
    /\ ~quality.passed

-----------------------------------------------------------------------------
(* ContactFinder._calculate_confidence (core/contact_finder.py), in tenths *)

BaseScore == 3
EmailScore == 4
LinkedinScore == 2
CompanyScore == 1
ScoreCap == 10

\* bool(x) of an Optional[str]
Truthy(o) == ~o.none /\ o.text # <<>>

\* a in b, for strings
In(a, b) == a = <<>> \/ Contains(b, a)

\* The same test without lower()
CompanyInSnippetExact(company, snippet) == In(company, snippet)

\* company.lower() in snippet.lower()
CompanyInSnippet(company, snippet) == In(Lower(company), Lower(snippet))

CalculateConfidence(email, linkedin, company, snippet) ==
    Least(BaseScore
            + (IF Truthy(email) THEN EmailScore ELSE 0)
            + (IF Truthy(linkedin) THEN LinkedinScore ELSE 0)
            + (IF CompanyInSnippet(company, snippet) THEN CompanyScore ELSE 0),
          ScoreCap)

ConfArgs ==
    [email : {NoneStr, Str(<<>>), Str(<<"j", "o", "@", "n", "h", "s", ".", "u", "k">>)},
     linkedin : {NoneStr, Str(<<>>), Str(<<"l", "i", "n", "k", "e", "d", "i", "n", ".", "c", "o", "m", "/", "i", "n", "/", "j", "o">>)},
     company : {<<>>, <<"N", "H", "S">>, <<"J", "o">>},
     snippet : {<<>>, <<"J", "o", " ", "j", "o", "i", "n", "s", " ", "n", "h", "s">>, <<"a", "t", " ", "N", "H", "S">>, <<"s", "o", " ", "o", "n">>}]

InitConfidence ==
    /\ conf_args \in ConfArgs
    /\ confidence = 0
    /\ confpc = "ready"
    /\ CleanIdle
    /\ GenIdle
    /\ CvIdle
    /\ QcIdle
    /\ ValIdle
    /\ PersIdle
    /\ OtherIdle

CalculateConfidenceCall ==
    /\ confpc = "ready"
    /\ confidence' = CalculateConfidence(conf_args.email, conf_args.linkedin,
                                         conf_args.company, conf_args.snippet)
    /\ confpc' = "returned"
    /\ UNCHANGED <<conf_args, cleanVars, genVars, cvVars, qcVars, valVars, persVars, otherVars>>

NextConfidence == CalculateConfidenceCall

SpecConfidence == InitConfidence /\ [][NextConfidence]_vars

\* The three signals of a call: email present, LinkedIn URL present, company name
\* found in the snippet whatever the case of the letters
Signals(a) ==
    [email |-> ~a.email.none /\ Len(a.email.text) > 0,
     linkedin |-> ~a.linkedin.none /\ Len(a.linkedin.text) > 0,
     company |-> \E i \in 1..(Len(a.snippet) + 1) :
                    /\ i + Len(a.company) - 1 <= Len(a.snippet)
                    /\ \A k \in 1..Len(a.company) :
                          LowerChar(a.snippet[i + k - 1]) = LowerChar(a.company[k])]

\* C20: the score is 0.3 + 0.4 (email) + 0.2 (LinkedIn) + 0.1 (company in snippet),
\* capped at 1.0; it lies in [0, 1] and no signal turned on lowers it.
ConfidenceAdditiveCappedMonotone ==
    confpc = "returned" =>
        LET sig == Signals(conf_args)
            sum == 3 + (IF sig.email THEN 4 ELSE 0) + (IF sig.linkedin THEN 2 ELSE 0)
                     + (IF sig.company THEN 1 ELSE 0)
        IN  /\ confidence = (IF sum > 10 THEN 10 ELSE sum)
            /\ confidence >= 0
            /\ confidence <= 10
            /\ \A b \in ConfArgs :
                  LET more == Signals(b)
                  IN  ((sig.email => more.email) /\ (sig.linkedin => more.linkedin)
                          /\ (sig.company => more.company)) =>
                        CalculateConfidence(b.email, b.linkedin, b.company, b.snippet)
                            >= confidence

CompanyFoundInOtherCase ==
    /\ confpc = "returned"
    /\ conf_args.company = <<"N", "H", "S">>
    /\ conf_args.snippet = <<"J", "o", " ", "j", "o", "i", "n", "s", " ", "n", "h", "s">>
    /\ ~Truthy(conf_args.email)
    /\ Truthy(conf_args.linkedin)
    /\ confidence = 6

-----------------------------------------------------------------------------
(* DraftValidator (core/validators.py) *)

\* Characters outside ASCII are written by their code point, "U+2022" for the bullet
CodePoint(c) ==
    CASE c = "U+2022" -> 8226
      [] c = "U+2192" -> 8594
      [] c = "U+274C" -> 10060
      [] c = "U+1F600" -> 128512
      [] OTHER -> 0

\* emoji_pattern: the ranges of the character class
EmojiRanges ==
    {<<128512, 128591>>, <<127744, 128511>>, <<128640, 128767>>, <<127456, 127487>>,
     <<9986, 10160>>, <<9410, 127569>>, <<129280, 129535>>}

IsEmoji(c) == \E r \in EmojiRanges : r[1] <= CodePoint(c) /\ CodePoint(c) <= r[2]

BulletChars == {"-", "U+2022", "*", "U+2192"}

IsDigit(c) == c \in Digits

IsLetter(c) == \E k \in 1..Len(UpperLetters) : UpperLetters[k] = c \/ LowerLetters[k] = c

\* s[i], "" outside the text
At(s, i) == IF i >= 1 /\ i <= Len(s) THEN s[i] ELSE ""

\* The lower-case word w matches at position i under re.IGNORECASE
OccursAtCI(t, w, i) ==
    /\ i + Len(w) - 1 <= Len(t)
    /\ \A k \in 1..Len(w) : LowerChar(t[i + k - 1]) = w[k]

AnyAt(t, words, i) == \E w \in words : OccursAtCI(t, w, i)

\* (?:w1|w2|...)\s+ matches at i: the position after the blanks, 0 when it does not
AfterWordAndBlanks(t, words, i) ==
    IF \E w \in words : OccursAtCI(t, w, i) /\ IsSpace(At(t, i + Len(w)))
    THEN LET w == CHOOSE w \in words : OccursAtCI(t, w, i) /\ IsSpace(At(t, i + Len(w)))
         IN  SkipBlanks(t, i + Len(w))
    ELSE 0

PeopleWords == {<<"u", "s", "e", "r", "s">>, <<"c", "u", "s", "t", "o", "m", "e", "r", "s">>, <<"d", "e", "v", "e", "l", "o", "p", "e", "r", "s">>, <<"e", "n", "g", "i", "n", "e", "e", "r", "s">>}
ChangeWords == {<<"i", "n", "c", "r", "e", "a", "s", "e", "d">>, <<"d", "e", "c", "r", "e", "a", "s", "e", "d">>, <<"i", "m", "p", "r", "o", "v", "e", "d">>, <<"r", "e", "d", "u", "c", "e", "d">>, <<"g", "r", "e", "w">>, <<"s", "c", "a", "l", "e", "d">>}

\* metric_patterns, each searched with re.IGNORECASE
MetricAt(t, i) ==
    \/ IsDigit(t[i]) /\ At(t, i + 1) = "%"
    \/ IsDigit(t[i]) /\ LowerChar(At(t, i + 1)) \in {"k", "m"}
    \/ IsDigit(t[i]) /\ LowerChar(At(t, i + 1)) = "x"
    \/ IsDigit(t[i]) /\ AnyAt(t, PeopleWords, SkipBlanks(t, i + 1))
    \/ LET j == AfterWordAndBlanks(t, ChangeWords, i)
       IN  /\ j # 0
           /\ \/ IsDigit(At(t, j))
              \/ LET k == AfterWordAndBlanks(t, {<<"b", "y">>}, j)
                 IN  k # 0 /\ IsDigit(At(t, k))

\* _check_has_metric
CheckHasMetric(text) == \E i \in 1..Len(text) : MetricAt(text, i)

\* The characters of [$-_@.&+] and [!*\\(\\),]
UrlPunctuation ==
    {"$", "%", "&", "'", "(", ")", "*", "+", ",", "-", ".", "/", ":", ";", "<", "=", ">",
     "?", "@", "[", "\\", "]", "^", "_", "!"}

UrlChar(c) == IsLetter(c) \/ IsDigit(c) \/ c \in UrlPunctuation

HttpScheme == <<"h", "t", "t", "p", ":", "/", "/">>
HttpsScheme == <<"h", "t", "t", "p", "s", ":", "/", "/">>

\* A host/path text counts as a link without any scheme
CheckHasLinkWithoutScheme(text) ==
    \E i \in 1..Len(text) :
        /\ IsLetter(text[i])
        /\ \E j \in (i + 1)..Len(text) :
              /\ text[j] = "."
              /\ \A k \in i..(j - 1) : IsLetter(text[k])
              /\ IsLetter(At(text, j + 1))

\* _check_has_link: url_pattern.findall(text) is not empty
CheckHasLink(text) ==
    \E i \in 1..Len(text) :
        \/ OccursAt(text, HttpScheme, i) /\ UrlChar(At(text, i + Len(HttpScheme)))
        \/ OccursAt(text, HttpsScheme, i) /\ UrlChar(At(text, i + Len(HttpsScheme)))

\* str.split(): the maximal runs of characters that are not whitespace
WordStarts(s) == {i \in 1..Len(s) : ~IsSpace(s[i]) /\ (i = 1 \/ IsSpace(s[i - 1]))}

WordFrom(s, i) ==
    LET blanks == {j \in i..Len(s) : IsSpace(s[j])}
    IN  SubSeq(s, i, IF blanks = {} THEN Len(s) ELSE Min(blanks) - 1)

Words(s) ==
    LET starts == WordStarts(s)
    IN  [k \in 1..Cardinality(starts) |->
            WordFrom(s, CHOOSE i \in starts : Cardinality({j \in starts : j <= i}) = k)]

\* len(body.split())
WordCount(s) == Len(Words(s))

TitleWords == 3
MinHookWordLen == 3

\* _check_company_hook, for a draft whose body is a string
CheckCompanyHook(draft) ==
    LET body_lower == Lower(draft.body.text)
        title_words == SubSeq(Words(Lower(draft.job_title)), 1,
                              Least(TitleWords, WordCount(draft.job_title)))
    IN  \/ draft.company # <<>> /\ In(Lower(draft.company), body_lower)
        \/ /\ draft.job_title # <<>>
           /\ \E k \in 1..Len(title_words) :
                 Len(title_words[k]) > MinHookWordLen /\ In(title_words[k], body_lower)

CallWords == {<<"c", "a", "l", "l">>, <<"c", "h", "a", "t">>, <<"m", "e", "e", "t", "i", "n", "g">>, <<"d", "e", "m", "o">>}
FreeWords == {<<"a", "v", "a", "i", "l", "a", "b", "l", "e">>, <<"f", "r", "e", "e">>}
WhenWords == {<<"t", "h", "i", "s", " ", "w", "e", "e", "k">>, <<"n", "e", "x", "t", " ", "w", "e", "e", "k">>, <<"t", "o", " ", "c", "h", "a", "t">>}
TalkWords == {<<"d", "i", "s", "c", "u", "s", "s">>, <<"t", "a", "l", "k">>, <<"s", "h", "o", "w">>, <<"d", "e", "m", "o">>}
MinuteCounts == {<<"7">>, <<"1", "0">>, <<"1", "5">>}

\* First position at or after i that holds neither whitespace nor a dash
SkipBlanksAndDashes(t, i) ==
    LET at == {j \in i..Len(t) : ~IsSpace(t[j]) /\ t[j] # "-"}
    IN  IF at = {} THEN Len(t) + 1 ELSE Min(at)

\* cta_patterns, each searched with re.IGNORECASE; the optional adjective and the
\* \s* of the first pattern match the empty text
CtaAt(t, i) ==
    \/ AnyAt(t, CallWords, i)
    \/ LET j == AfterWordAndBlanks(t, FreeWords, i)
       IN  j # 0 /\ AnyAt(t, WhenWords, j)
    \/ AnyAt(t, TalkWords, i)
    \/ \E n \in MinuteCounts :
          OccursAtCI(t, n, i) /\ OccursAtCI(t, <<"m", "i", "n">>, SkipBlanksAndDashes(t, i + Len(n)))

\* _check_has_cta
CheckHasCta(text) == \E i \in 1..Len(text) : CtaAt(text, i)

MaxWords == 180

\* _check_word_limit
CheckWordLimit(body) == WordCount(body) <= MaxWords

\* _check_no_emojis
CheckNoEmojis(text) == ~\E i \in 1..Len(text) : IsEmoji(text[i])

\* \s*[-U+2022*U+2192] matches from i, whatever follows the bullet character
BulletCharFrom(s, i) ==
    \E j \in i..Len(s) : s[j] \in BulletChars /\ \A k \in i..(j - 1) : IsSpace(s[k])

\* \s*[-U+2022*U+2192]\s+ matches from i
BulletFrom(s, i) ==
    \E j \in i..Len(s) :
        /\ s[j] \in BulletChars
        /\ \A k \in i..(j - 1) : IsSpace(s[k])
        /\ IsSpace(At(s, j + 1))

\* ^ under re.MULTILINE: the start of the text or the position after a newline
LineStart(s, i) == i = 1 \/ s[i - 1] = "\n"

\* _check_no_bullets: neither of bullet_patterns is found
CheckNoBullets(body) ==
    /\ ~\E i \in 1..Len(body) : LineStart(body, i) /\ BulletFrom(body, i)
    /\ ~\E i \in 1..Len(body) : body[i] = "\n" /\ BulletFrom(body, i + 1)

\* str(x) of an Optional[str] in an f-string
Format(o) == IF o.none THEN <<"N", "o", "n", "e">> ELSE o.text

\* full_text = f"{draft.subject} {draft.body}"
FullText(draft) == draft.subject \o <<" ">> \o Format(draft.body)

CrossMark == "U+274C"

MetricIssue ==
    <<CrossMark, " No concrete metrics found (e.g., '40% improvement', '10K users')">>
LinkIssue == <<CrossMark, " No project link found (GitHub, portfolio, demo)">>
HookIssue(draft) ==
    <<CrossMark, " No specific reference to ">> \o draft.company \o <<" or job role">>
CtaIssue ==
    <<CrossMark, " No clear call-to-action (e.g., '10-minute call', 'quick demo')">>
WordLimitIssue(draft) ==
    <<CrossMark, " Too long: ", ToString(WordCount(draft.body.text)), " words (limit: 180)">>
EmojiIssue == <<CrossMark, " Contains emojis (remove all emojis)">>
BulletIssue == <<CrossMark, " Contains bullet dashes (use paragraphs instead)">>

IssueIf(failed, message) == IF failed THEN <<message>> ELSE <<>>

\* The same list without the message of the word limit
GenerateIssuesWithoutWordLimit(checks, draft) ==
    IssueIf(~checks.has_metric, MetricIssue)
        \o IssueIf(~checks.has_project_link, LinkIssue)
        \o IssueIf(~checks.has_company_hook, HookIssue(draft))
        \o IssueIf(~checks.has_clear_cta, CtaIssue)
        \o IssueIf(~checks.no_emojis, EmojiIssue)
        \o IssueIf(~checks.no_bullet_dashes, BulletIssue)

\* _generate_issues
GenerateIssues(checks, draft) ==
    IssueIf(~checks.has_metric, MetricIssue)
        \o IssueIf(~checks.has_project_link, LinkIssue)
        \o IssueIf(~checks.has_company_hook, HookIssue(draft))
        \o IssueIf(~checks.has_clear_cta, CtaIssue)
        \o IssueIf(~checks.under_word_limit, WordLimitIssue(draft))
        \o IssueIf(~checks.no_emojis, EmojiIssue)
        \o IssueIf(~checks.no_bullet_dashes, BulletIssue)

\* draft.body.lower() raises AttributeError when the body is None; nothing in
\* validate_draft catches it
Raises(draft) == draft.body.none

\* validate_draft, for a draft on which no predicate raises
ValidateDraft(draft) ==
    LET full_text == FullText(draft)
        checks == QualityCheckOf(
            [has_metric |-> CheckHasMetric(full_text),
             has_project_link |-> CheckHasLink(full_text),
             has_company_hook |-> CheckCompanyHook(draft),
             has_clear_cta |-> CheckHasCta(full_text),
             under_word_limit |-> CheckWordLimit(draft.body.text),
             no_emojis |-> CheckNoEmojis(full_text),
             no_bullet_dashes |-> CheckNoBullets(draft.body.text),
             score |-> NoScore,
             issues |-> <<>>,
             passed |-> FALSE])
    IN  [checks EXCEPT !.issues = GenerateIssues(checks, draft)]

\* The draft after validate_draft, had the call stripped its body
DraftStripped(draft) == [draft EXCEPT !.body.text = Strip(@)]

\* The draft after validate_draft: the call assigns to no field of it
DraftAfter(draft) == draft

MaxCalls == 3

Openings == {<<>>, <<"-", " ">>, <<"-", "x", " ">>, <<" ", "*", " ">>, <<"U+2022", " ">>}
MetricParts == {<<"I", " ", "b", "u", "i", "l", "t", " ", "t", "o", "o", "l", "s", ".", " ">>, <<"I", " ", "r", "e", "d", "u", "c", "e", "d", " ", "l", "a", "t", "e", "n", "c", "y", 
        " ", "b", "y", " ", "4", "0", "%", ".", " ">>}
LinkParts == {<<>>, <<"S", "e", "e", " ", "g", "i", "t", "h", "u", "b", ".", "c", "o", "m", "/", "m", "e", 
        "/", "p", "r", "o", "j", ".", " ">>, <<"S", "e", "e", " ", "h", "t", "t", "p", "s", ":", "/", "/", "g", "i", "t", "h", "u", 
        "b", ".", "c", "o", "m", "/", "m", "e", "/", "p", "r", "o", "j", ".", " ">>}
HookParts == {<<>>, <<"A", "c", "m", "e", " ", "i", "s", " ", "g", "r", "e", "a", "t", ".", " ">>}
CtaParts == {<<"T", "h", "a", "n", "k", "s", ".", " ">>, <<"W", "o", "u", "l", "d", " ", "y", "o", "u", " ", "h", "a", "v", "e", " ", "1", "5", 
        " ", "m", "i", "n", "u", "t", "e", "s", "?", " ">>}
EmojiParts == {<<>>, <<"U+1F600">>}

ScenarioBody ==
    <<"I", " ", "r", "e", "d", "u", "c", "e", "d", " ", "l", "a", "t", "e", "n", "c", "y", 
        " ", "b", "y", " ", "4", "0", "%", " ", "a", "n", "d", " ", "i", "n", "c", "r", "e", 
        "a", "s", "e", "d", " ", "t", "h", "r", "o", "u", "g", "h", "p", "u", "t", " ", "b", 
        "y", " ", "2", "x", ".", " ", "C", "h", "e", "c", "k", " ", "g", "i", "t", "h", "u", 
        "b", ".", "c", "o", "m", "/", "m", "e", "/", "p", "r", "o", "j", ".", " ", "W", "o", 
        "u", "l", "d", " ", "y", "o", "u", " ", "h", "a", "v", "e", " ", "1", "5", " ", "m", 
        "i", "n", "u", "t", "e", "s", " ", "t", "h", "i", "s", " ", "w", "e", "e", "k", "?">>

BareBulletBody == <<"S", "k", "i", "l", "l", "s", ":", "\n", "-", "\n", "P", "y", "t", "h", "o", "n">>

ListBody == <<"S", "k", "i", "l", "l", "s", ":", "\n", "-", " ", "P", "y", "t", "h", "o", "n", 
        "\n", "-", " ", "D", "o", "c", "k", "e", "r">>

\* MaxWords + 1 words
LongBody == [i \in 1..(2 * (MaxWords + 1)) |-> IF i % 2 = 1 THEN "w" ELSE " "]

Bodies ==
    {Flatten(<<o, m, l, h, c, e>>) :
        o \in Openings, m \in MetricParts, l \in LinkParts, h \in HookParts,
        c \in CtaParts, e \in EmojiParts}
    \cup {ScenarioBody, ListBody, BareBulletBody, LongBody}

DraftOf(body) ==
    [subject |-> <<"H", "e", "l", "l", "o">>, body |-> body, company |-> <<"A", "c", "m", "e">>,
     job_title |-> <<"S", "e", "n", "i", "o", "r", " ", "E", "n", "g", "i", "n", "e", "e", "r">>]

\* EmailDraft objects; the last one had its body assigned None after construction
\* (the models do not validate assignment)
Drafts == {DraftOf(Str(b)) : b \in Bodies} \cup {DraftOf(NoneStr)}

OtherDraft ==
    [subject |-> <<"R", "e", ":", " ", "M", "L", " ", "E", "n", "g", "i", "n", "e", "e", "r">>, body |-> Str(<<"W", "e", " ", "s", "c", "a", "l", "e", "d", " ", "t", "o", " ", "5", "M", " ", "u", 
        "s", "e", "r", "s", ",", " ", "q", "u", "i", "c", "k", " ", "c", "a", "l", "l", "?">>),
     company |-> <<>>, job_title |-> <<"M", "L", " ", "E", "n", "g", "i", "n", "e", "e", "r">>]

InitValidate ==
    /\ drafts \in {<<d, OtherDraft>> : d \in Drafts}
    /\ calls = <<>>
    /\ CleanIdle
    /\ GenIdle
    /\ CvIdle
    /\ QcIdle
    /\ ConfIdle
    /\ PersIdle
    /\ OtherIdle

\* One call of validate_draft on drafts[d]
ValidateDraftCall(d) ==
    /\ Len(calls) < MaxCalls
    /\ IF Raises(drafts[d])
       THEN /\ calls' = Append(calls, [draft |-> d, raised |-> TRUE, checks |-> NoQuality])
            /\ UNCHANGED drafts
       ELSE /\ calls' = Append(calls, [draft |-> d, raised |-> FALSE,
                                       checks |-> ValidateDraft(drafts[d])])
            /\ drafts' = [drafts EXCEPT ![d] = DraftAfter(@)]
    /\ UNCHANGED <<cleanVars, genVars, cvVars, qcVars, confVars, persVars, otherVars>>

NextValidate == \E d \in 1..Len(drafts) : ValidateDraftCall(d)

SpecValidate == InitValidate /\ [][NextValidate]_vars

-----------------------------------------------------------------------------
(* Properties of validate_draft *)

Returned == {k \in 1..Len(calls) : ~calls[k].raised}

DraftOfCall(k) == drafts[calls[k].draft]

BodyOfCall(k) == DraftOfCall(k).body.text

\* The message expected for a failed check
ExpectedIssue(name, draft) ==
    CASE name = "has_metric" -> MetricIssue
      [] name = "has_project_link" -> LinkIssue
      [] name = "has_company_hook" -> HookIssue(draft)
      [] name = "has_clear_cta" -> CtaIssue
      [] name = "under_word_limit" ->
            <<CrossMark, " Too long: ",
              ToString(Cardinality(WordStarts(draft.body.text))), " words (limit: 180)">>
      [] name = "no_emojis" -> EmojiIssue
      [] name = "no_bullet_dashes" -> BulletIssue

\* C14: the issues of a returned QualityCheck are the messages of its failed checks,
\* one each, in the order of the seven checks; the word-limit message carries the
\* whitespace-split word count of the body and the limit 180.
IssuesAreFailedChecksInOrder ==
    \A k \in Returned :
        LET q == calls[k].checks
            failed == SelectSeq(CheckNames, LAMBDA n : ~q[n])
        IN  /\ Len(q.issues) = 7 - TrueCount(q)
            /\ Len(q.issues) = Len(failed)
            /\ \A n \in 1..Len(failed) :
                  q.issues[n] = ExpectedIssue(failed[n], DraftOfCall(k))

LongBodyIssueStatesCount ==
    \E k \in Returned :
        /\ BodyOfCall(k) = LongBody
        /\ Len(calls[k].checks.issues) = 5
        /\ calls[k].checks.issues[5] = <<CrossMark, " Too long: ", "181", " words (limit: 180)">>

ScenarioCalls == {k \in 1..Len(calls) : DraftOfCall(k) = DraftOf(Str(ScenarioBody))}

SchemelessProjectUrlIsLink ==
    \A k \in Returned :
        Contains(BodyOfCall(k), <<"g", "i", "t", "h", "u", "b", ".", "c", "o", "m", "/", "m", "e", "/", "p", "r", "o", 
        "j">>) => calls[k].checks.has_project_link

Lines(body) == Split(body, <<"\n">>)

\* C17 as stated: no_bullet_dashes is false exactly when some line begins with a
\* bullet character.
NoBulletsIffNoLineBeginsWithBulletChar ==
    \A k \in Returned :
        calls[k].checks.no_bullet_dashes <=>
            ~\E n \in 1..Len(Lines(BodyOfCall(k))) :
                LET line == Lines(BodyOfCall(k))[n]
                IN  line # <<>> /\ line[1] \in BulletChars

\* C17: no_bullet_dashes is false exactly when some line holds, after optional
\* leading whitespace, a bullet character followed by a whitespace character (the
\* line break that ends the line counts).
NoBulletsIffNoLineHoldsBulletThenBlank ==
    \A k \in Returned :
        calls[k].checks.no_bullet_dashes <=>
            ~\E n \in 1..Len(Lines(BodyOfCall(k))) :
                LET line == Lines(BodyOfCall(k))[n]
                    first == SkipBlanks(line, 1)
                IN  /\ first <= Len(line)
                    /\ line[first] \in BulletChars
                    /\ \/ first < Len(line) /\ IsSpace(line[first + 1])
                       \/ first = Len(line) /\ n < Len(Lines(BodyOfCall(k)))

DashThenLetterIsNoBullet ==
    \E k \in Returned :
        /\ StartsWith(BodyOfCall(k), <<"-", "x", " ">>)
        /\ calls[k].checks.no_bullet_dashes

ValidateDraftNeverRaises == \A k \in 1..Len(calls) : ~calls[k].raised

-----------------------------------------------------------------------------
(* Properties of the personalization engine *)

PlanCallEnded == Len(llm_calls) >= 1

PlanCallFailed == PlanCallEnded /\ llm_calls[1].failure # ""

\* The fallback plan as the claim gives it
PlanIsFallback ==
    /\ plan.anchor_project =
          (IF Len(cv_profile.projects) > 0
           THEN [none |-> FALSE, name |-> cv_profile.projects[1]]
           ELSE [none |-> TRUE, name |-> ""])
    /\ Len(plan.shared_technologies) = (IF Len(cv_profile.skills) < 3
                                        THEN Len(cv_profile.skills) ELSE 3)
    /\ \A i \in 1..Len(plan.shared_technologies) :
          plan.shared_technologies[i] = cv_profile.skills[i]
    /\ plan.relevant_metrics = <<>>
    /\ plan.angle = <<"t", "e", "c", "h", "n", "i", "c", "a", "l">>

\* C11: create_personalization_plan does not raise when the generation or the
\* validation of the plan fails; it returns the fallback plan: first project or
\* none, first three skills, no metrics, angle "technical".
PlanFailureYieldsFallbackPlan ==
    /\ (ppc = "raised" => Len(llm_calls) = 2 \/ email_error.kind = "KeyError")
    /\ (pvia = "direct" /\ PlanCallEnded => ppc = "returned")
    /\ (PlanCallFailed => PlanIsFallback)

FallbackPlanAfterTransportError ==
    /\ pvia = "direct"
    /\ ppc = "returned"
    /\ llm_calls[1].failure = "transport"
    /\ Len(cv_profile.skills) = 4
    /\ plan.shared_technologies = <<"python", "go", "sql">>
    /\ plan.anchor_project = [none |-> FALSE, name |-> "optimizer"]

\* In generate_email the plan call comes first and the email call second
PlanPrecedesEmailCall ==
    /\ ppc = "plan" => caller = "plan" /\ llm_calls = <<>>
    /\ pvia = "generate_email" /\ ppc \in {"email", "returned", "raised"} =>
          /\ caller = "email"
          /\ PlanCallEnded
          /\ llm_calls[1].who = "plan"
          /\ llm_calls[1].temperature = 4 * TempScale
          /\ t0 = 6 * TempScale
          /\ Len(llm_calls) = 2 => llm_calls[2].who = "email"

\* In generate_email a failed plan call is followed by the email call, made with
\* the fallback plan
EmailCallIssuedAfterPlanFailure ==
    pvia = "generate_email" /\ PlanCallFailed =>
        /\ ppc \in {"email", "returned", "raised"}
        /\ caller = "email"
        /\ PlanIsFallback
        /\ plan.technical_hook # <<>>

\* C12 as stated: the plan call precedes the email call, the email call is issued
\* with the fallback plan when the plan call fails, and generate_email fails only
\* if the generate_json call for the email fails.
EmailFailsOnlyIfEmailCallFails ==
    /\ PlanPrecedesEmailCall
    /\ EmailCallIssuedAfterPlanFailure
    /\ (pvia = "generate_email" /\ ppc = "raised" =>
            Len(llm_calls) = 2 /\ llm_calls[2].failure # "")

\* C12: the plan call precedes the email call, the email call is issued with the
\* fallback plan when the plan call fails, and generate_email fails only if the
\* generate_json call for the email fails or the subject or body of its answer is
\* not a string, so that the EmailDraft fails validation.
EmailFailsOnlyIfEmailCallOrDraftFails ==
    /\ PlanPrecedesEmailCall
    /\ EmailCallIssuedAfterPlanFailure
    /\ pvia = "generate_email" /\ ppc = "raised" =>
          /\ Len(llm_calls) = 2
          /\ \/ llm_calls[2].failure # ""
             \/ \E key \in {<<"s", "u", "b", "j", "e", "c", "t">>, <<"b", "o", "d", "y">>} :
                   HasKey(result, key) /\ ~IsStringLiteral(Get(result, key))

EmailReturnedAfterPlanFailure ==
    /\ pvia = "generate_email"
    /\ ppc = "returned"
    /\ llm_calls[1].failure = "transport"
    /\ llm_calls[2].failure = ""
    /\ email_draft.plan = plan
    /\ plan.technical_hook = <<"Experience with ", "python", ", ", "go">>
    /\ email_draft.subject = <<"Re: ", "ML Engineer">>

\* C29: generate_whatsapp_message builds its prompt without failing, every
\* replacement field of WHATSAPP_DRAFT_PROMPT being supplied, so that it fails
\* only if its message generation call does.
WhatsappPromptNeverFails ==
    pvia = "whatsapp" /\ PlanCallEnded =>
        /\ ppc # "raised"
        /\ ~FormatPrompt(WhatsappPromptFields,
                         WhatsappPromptKwargs(cv_profile, Job, plan)).raised

\* generate_whatsapp_message raises KeyError for the field "project" as soon as
\* the plan is made, whether the plan call failed or not
WhatsappAlwaysKeyError ==
    pvia = "whatsapp" /\ PlanCallEnded =>
        /\ ppc = "raised"
        /\ email_error = [kind |-> "KeyError", msg |-> << <<"project">> >>]
        /\ Len(llm_calls) = 1

-----------------------------------------------------------------------------
(* ContactFinder.generate_email_permutations (core/contact_finder.py) *)

AtSign == <<"@">>

\* if "@" in domain: domain = domain.split("@")[1]
MailDomain(domain) == IF Contains(domain, AtSign) THEN Split(domain, AtSign)[2] ELSE domain

\* patterns = [...]: first[0] raises IndexError when first is empty
Patterns(first, last, domain) ==
    <<first \o <<".">> \o last \o AtSign \o domain,
      first \o AtSign \o domain,
      first \o last \o AtSign \o domain,
      <<first[1]>> \o last \o AtSign \o domain,
      first \o <<"_">> \o last \o AtSign \o domain>>

TopPatterns == 3

\* Python floats (IEEE 754 binary64) in [1/16, 1), and zero: a float is the
\* sequence of its four base-2^14 digits after the binary point, most
\* significant first, so that <<a, b, c, d>> is (a*B^3 + b*B^2 + c*B + d) / 2^56.
LimbBase == 16384

\* Digits brought back into 0..LimbBase-1, carrying (or borrowing) leftwards
RECURSIVE Carry(_, _)
Carry(x, c) ==
    IF x = <<>> THEN <<>>
    ELSE LET n == Len(x)
             v == x[n] + c
         IN  Carry(SubSeq(x, 1, n - 1), v \div LimbBase) \o <<v % LimbBase>>

\* Round to nearest, ties to even: x has five digits (units of 2^-70), sticky
\* says that a non-zero part below them was cut off; the result has four, its
\* leading 53 bits kept.
RoundFloat(x, sticky) ==
    LET q == IF x[1] >= 8192 THEN 8
             ELSE IF x[1] >= 4096 THEN 4
             ELSE IF x[1] >= 2048 THEN 2 ELSE 1
        low == (x[4] % q) * LimbBase + x[5]
        half == (q * LimbBase) \div 2
        kept == x[4] - (x[4] % q)
        odd == (kept \div q) % 2 = 1
        up == low > half \/ (low = half /\ (sticky \/ odd))
    IN  Carry(<<x[1], x[2], x[3], kept + (IF up THEN q ELSE 0)>>, 0)

\* Long division of the digits x by d, r the remainder carried in
RECURSIVE DivLimbs(_, _, _)
DivLimbs(x, d, r) ==
    IF x = <<>> THEN [digits |-> <<>>, rest |-> r]
    ELSE LET cur == r * LimbBase + Head(x)
             tl == DivLimbs(Tail(x), d, cur % d)
         IN  [digits |-> <<cur \div d>> \o tl.digits, rest |-> tl.rest]

\* The float literal 0.n: the float nearest to n/10
FloatTenths(n) ==
    LET dv == DivLimbs(<<n, 0, 0, 0, 0, 0>>, 10, 0)
    IN  RoundFloat(Tail(dv.digits), dv.rest # 0)

\* i * x for an int i and a float x
FloatTimes(i, x) == RoundFloat(Carry([k \in 1..Len(x) |-> i * x[k]], 0) \o <<0>>, FALSE)

\* x - y for floats x >= y
FloatMinus(x, y) == RoundFloat(Carry([k \in 1..Len(x) |-> x[k] - y[k]], 0) \o <<0>>, FALSE)

\* 0.7 - (i * 0.1)
PatternConfidence(i) == FloatMinus(FloatTenths(7), FloatTimes(i, FloatTenths(1)))

\* generate_email_permutations
GenerateEmailPermutations(first_name, last_name, domain) ==
    LET first == Strip(Lower(first_name))
        last == Strip(Lower(last_name))
        dom == MailDomain(Strip(Lower(domain)))
    IN  IF first = <<>>
        THEN [raised |-> TRUE, candidates |-> <<>>]
        ELSE [raised |-> FALSE,
              candidates |->
                  [i \in 1..TopPatterns |->
                      [name |-> first_name \o <<" ">> \o last_name,
                       email |-> Patterns(first, last, dom)[i],
                       email_confidence |-> "guessed",
                       source |-> "email_permutation",
                       confidence_score |-> PatternConfidence(i - 1)]]]

FirstNames == {<<"J", "a", "n", "e">>, <<" ", "J", "o", " ">>, <<"J">>, <<" ">>, <<>>}
LastNames == {<<"D", "o", "e">>, <<"D", "O", "E", " ">>, <<"O">>, <<>>}
Domains == {<<"a", "c", "m", "e", ".", "c", "o", "m">>, <<"J", "o">> \o AtSign \o <<"A", "c", "m", "e", ".", "c", "o", "m">>, <<" ", "A", "C", "M", "E", ".", "i", "o", " ">>, <<>>}

InitPermutations ==
    /\ perm_args \in [first_name : FirstNames, last_name : LastNames, domain : Domains]
    /\ perm_out = <<>>
    /\ permpc = "ready"
    /\ CleanIdle
    /\ GenIdle
    /\ CvIdle
    /\ QcIdle
    /\ ConfIdle
    /\ ValIdle
    /\ PersIdle
    /\ StudioIdle
    /\ JobIdle
    /\ FcIdle
    /\ RoleIdle

GenerateEmailPermutationsCall ==
    /\ permpc = "ready"
    /\ LET out == GenerateEmailPermutations(perm_args.first_name, perm_args.last_name,
                                            perm_args.domain)
       IN  /\ perm_out' = out.candidates
           /\ permpc' = IF out.raised THEN "raised" ELSE "returned"
    /\ UNCHANGED <<perm_args, cleanVars, genVars, cvVars, qcVars, confVars, valVars, persVars,
                   studioVars, jobVars, fcVars, roleVars>>

NextPermutations == GenerateEmailPermutationsCall

SpecPermutations == InitPermutations /\ [][NextPermutations]_vars

\* The text with its leading and trailing whitespace cut, in lower case
Trimmed(s) == Lower(Strip(s))

\* The text after the @ of a full address, the text itself when it has no @
AfterAt(s) == SubSeq(s, Find(s, "@") + 1, Len(s))

\* C21: for a first name that holds a character other than whitespace and a
\* non-empty last name and domain, exactly three candidates are returned:
\* first.last@domain, first@domain, firstlast@domain in lower case, the domain
\* without its user@ prefix, with confidences 0.7, 0.6, 0.5, each tagged "guessed".
ThreeCandidatesInOrder ==
    /\ permpc \in {"returned", "raised"}
    /\ Strip(perm_args.first_name) # <<>>
    /\ perm_args.last_name # <<>>
    /\ perm_args.domain # <<>>
    => LET f == Trimmed(perm_args.first_name)
           l == Trimmed(perm_args.last_name)
           d == AfterAt(Trimmed(perm_args.domain))
       IN  /\ permpc = "returned"
           /\ Len(perm_out) = 3
           /\ perm_out[1].email = f \o <<".">> \o l \o <<"@">> \o d
           /\ perm_out[2].email = f \o <<"@">> \o d
           /\ perm_out[3].email = f \o l \o <<"@">> \o d
           /\ perm_out[1].confidence_score = FloatTenths(7)
           /\ perm_out[2].confidence_score = FloatTenths(6)
           /\ perm_out[3].confidence_score = FloatTenths(5)
           /\ \A i \in 1..3 : perm_out[i].email_confidence = "guessed"

\* The same with the third confidence left open: the three addresses, their
\* order and the first two confidences are as stated.
ThreeAddressesInOrder ==
    /\ permpc \in {"returned", "raised"}
    /\ Strip(perm_args.first_name) # <<>>
    /\ perm_args.last_name # <<>>
    /\ perm_args.domain # <<>>
    => LET f == Trimmed(perm_args.first_name)
           l == Trimmed(perm_args.last_name)
           d == AfterAt(Trimmed(perm_args.domain))
       IN  /\ permpc = "returned"
           /\ Len(perm_out) = 3
           /\ perm_out[1].email = f \o <<".">> \o l \o <<"@">> \o d
           /\ perm_out[2].email = f \o <<"@">> \o d
           /\ perm_out[3].email = f \o l \o <<"@">> \o d
           /\ perm_out[1].confidence_score = FloatTenths(7)
           /\ perm_out[2].confidence_score = FloatTenths(6)
           /\ \A i \in 1..3 : perm_out[i].email_confidence = "guessed"

\* The third confidence is the float just below 0.5
ThirdConfidenceBelowHalf ==
    permpc = "returned" =>
        /\ perm_out[3].confidence_score = <<8191, 16383, 16383, 16380>>
        /\ FloatTenths(5) = <<8192, 0, 0, 0>>

\* C30: generate_email_permutations never raises and returns three candidates,
\* whatever the first name, last name and domain.
PermutationsTotal == permpc # "ready" => permpc = "returned" /\ Len(perm_out) = 3
-----------------------------------------------------------------------------
(* EmailDraft.word_count (core/models.py) and the draft studio (app.py) *)

\* calculate_word_count: the validator of word_count, run with always=True when
\* the model is constructed; the value supplied is dropped
CalculateWordCount(v, body) == WordCount(body)

\* EmailDraft(subject=..., body=..., job_title=..., company=..., word_count=...)
EmailDraftNew(kwargs) ==
    [subject |-> kwargs.subject, body |-> Str(kwargs.body), company |-> kwargs.company,
     job_title |-> kwargs.job_title,
     word_count |-> CalculateWordCount(kwargs.word_count, kwargs.body)]

\* draft.subject = subject; draft.body = body: plain attribute assignment, the
\* models do not validate assignment
AssignSubjectAndBody(draft, subject, body) ==
    [draft EXCEPT !.subject = subject, !.body = Str(body)]

MaxEdits == 2

StudioBodies ==
    {<<"H", "i", " ", "t", "h", "e", "r", "e">>, <<" ", " ", "o", "n", "e", "\t", "t", "w", "o", "\n", "t", "h", "r", "e", "e", " ", " ">>, <<>>, <<"W", "e", " ", "c", "u", "t", " ", "l", "a", "t", "e", "n", "c", "y", " ", "b", "y", 
        " ", "4", "0", "%", ",", " ", "o", "p", "e", "n", " ", "t", "o", " ", "a", " ", "q", 
        "u", "i", "c", "k", " ", "c", "a", "l", "l", "?">>, <<"-", " ", "a">>}

StudioSubjects == {<<"H", "e", "l", "l", "o">>, <<"R", "e", ":", " ", "M", "L", " ", "E", "n", "g", "i", "n", "e", "e", "r">>}

SuppliedWordCounts == {0, 7}

InitStudio ==
    /\ studio_kwargs \in [subject : {<<"H", "e", "l", "l", "o">>}, body : StudioBodies, company : {<<"A", "c", "m", "e">>},
                          job_title : {<<"S", "e", "n", "i", "o", "r", " ", "E", "n", "g", "i", "n", "e", "e", "r">>}, word_count : SuppliedWordCounts]
    /\ current_draft = EmailDraftNew(studio_kwargs)
    /\ studio_quality = NoQuality
    /\ edits = 0
    /\ CleanIdle
    /\ GenIdle
    /\ CvIdle
    /\ QcIdle
    /\ ConfIdle
    /\ ValIdle
    /\ PersIdle
    /\ PermIdle
    /\ JobIdle
    /\ FcIdle
    /\ RoleIdle

\* One run of the draft studio page with the texts of its two input fields
ShowDraft(subject, body) ==
    /\ edits < MaxEdits
    /\ edits' = edits + 1
    /\ current_draft' = IF subject # current_draft.subject \/ body # current_draft.body.text
                        THEN AssignSubjectAndBody(current_draft, subject, body)
                        ELSE current_draft
    /\ studio_quality' = ValidateDraft(current_draft')
    /\ UNCHANGED <<studio_kwargs, cleanVars, genVars, cvVars, qcVars, confVars, valVars, persVars,
                   permVars, jobVars, fcVars, roleVars>>

NextStudio == \E subject \in StudioSubjects, body \in StudioBodies : ShowDraft(subject, body)

SpecStudio == InitStudio /\ [][NextStudio]_vars

\* C22: word_count equals the whitespace-split word count of the current body,
\* at construction whatever word_count was supplied, and after every change of
\* the body, the assignment made by the draft studio included.
WordCountIsBodyWordCount ==
    current_draft.word_count = Cardinality(WordStarts(current_draft.body.text))

\* At construction the supplied word_count is overridden
WordCountAtConstruction ==
    edits = 0 => current_draft.word_count = Cardinality(WordStarts(studio_kwargs.body))
-----------------------------------------------------------------------------
(* JobFinder.search_jobs (core/job_finder.py) *)

UpperChar(c) ==
    IF \E k \in 1..Len(LowerLetters) : LowerLetters[k] = c
    THEN UpperLetters[CHOOSE k \in 1..Len(LowerLetters) : LowerLetters[k] = c]
    ELSE c

\* str.capitalize()
Capitalize(s) == IF s = <<>> THEN <<>> ELSE <<UpperChar(s[1])>> \o Lower(Tail(s))

\* str.replace(old, "")
Remove(s, old) == Flatten(Split(s, old))

\* str.lstrip() of blanks
LStrip(s) ==
    LET keep == {i \in 1..Len(s) : ~IsSpace(s[i])}
    IN  IF keep = {} THEN <<>> ELSE SubSeq(s, Min(keep), Len(s))

SchemeChars ==
    {UpperLetters[k] : k \in 1..Len(UpperLetters)} \cup
    {LowerLetters[k] : k \in 1..Len(LowerLetters)} \cup Digits \cup {"+", "-", "."}

\* urllib.parse.urlparse(url).netloc for a URL of ASCII characters without a
\* bracketed host: leading blanks and all tabs and line breaks are dropped, a
\* scheme is cut off, and the network location is what follows "//" up to the
\* first of "/", "?", "#". A location with one unmatched bracket raises.
UrlNetloc(url) ==
    LET u == SelectSeq(LStrip(url), LAMBDA c : c \notin {"\t", "\n"})
        i == Find(u, ":")
        scheme == i > 1 /\ IsLetter(u[1]) /\ \A k \in 1..(i - 1) : u[k] \in SchemeChars
        rest == IF scheme THEN From(u, i) ELSE u
        ends == {k \in 3..Len(rest) : rest[k] \in {"/", "?", "#"}}
        netloc == IF StartsWith(rest, <<"/", "/">>)
                  THEN SubSeq(rest, 3, IF ends = {} THEN Len(rest) ELSE Min(ends) - 1)
                  ELSE <<>>
        opens == \E k \in 1..Len(netloc) : netloc[k] = "["
        closes == \E k \in 1..Len(netloc) : netloc[k] = "]"
    IN  [raised |-> opens # closes, netloc |-> netloc]

UnknownCompany == <<"U", "n", "k", "n", "o", "w", "n", " ", "C", "o", "m", "p", "a", "n", "y">>

\* _extract_company_name
ExtractCompanyName(title, url) ==
    LET parts == Split(title, <<" ", "a", "t", " ">>)
        parsed == UrlNetloc(url)
        domain == Remove(Remove(Remove(parsed.netloc, <<"w", "w", "w", ".">>), <<"j", "o", "b", "s", ".">>), <<"c", "a", "r", "e", "e", "r", "s", ".">>)
        company == Split(domain, <<".">>)
    IN  IF Contains(title, <<" ", "a", "t", " ">>) /\ Len(parts) > 1 THEN Strip(parts[Len(parts)])
        ELSE IF parsed.raised THEN UnknownCompany
        ELSE Capitalize(company[1])

JobKeywords ==
    {<<"j", "o", "b">>, <<"c", "a", "r", "e", "e", "r">>, <<"h", "i", "r", "i", "n", "g">>, <<"p", "o", "s", "i", "t", "i", "o", "n">>, <<"o", "p", "e", "n", "i", "n", "g">>, <<"a", "p", "p", "l", "y">>, <<"l", "i", "n", "k", "e", "d", "i", "n",
                                                                                                                                                                                                              ".", "c", "o", "m", "/", "j", "o", "b",
                                                                                                                                                                                                              "s">>,
     <<"i", "n", "d", "e", "e", "d">>, <<"g", "l", "a", "s", "s", "d", "o", "o", "r">>, <<"g", "r", "e", "e", "n", "h", "o", "u",
                                                                                          "s", "e", ".", "i", "o">>, <<"l", "e", "v", "e", "r", ".", "c", "o">>, <<"w", "o", "r", "k", "d", "a", "y">>, <<"f", "u", "l", "l", "-", "t", "i", "m",
                                                                                                                                                                                                          "e">>, <<"p", "a", "r", "t", "-", "t", "i", "m",
                                                                                                                                                                                                                   "e">>}

\* _is_job_related
IsJobRelated(res) ==
    LET text == Lower(res.title \o <<" ">> \o res.body \o <<" ">> \o res.href)
    IN  \E keyword \in JobKeywords : Contains(text, keyword)

\* _parse_search_result
ParseSearchResult(res) ==
    [title |-> res.title,
     company |-> ExtractCompanyName(res.title, res.href),
     url |-> res.href,
     description |-> res.body,
     relevance_score |-> FloatTenths(5)]

\* The loop of search_jobs over the results
RECURSIVE JobPostingsOf(_)
JobPostingsOf(results) ==
    IF results = <<>> THEN <<>>
    ELSE (IF IsJobRelated(Head(results)) THEN <<ParseSearchResult(Head(results))>> ELSE <<>>)
         \o JobPostingsOf(Tail(results))

MaxJobResults == 2

JobTitles == {<<"S", "o", "f", "t", "w", "a", "r", "e", " ", "E", "n", "g", "i", "n", "e", "e",
                "r", " ", "a", "t", " ", "G", "o", "o", "g", "l", "e">>, <<"E", "n", "g", "i", "n", "e", "e", "r",
                                                                           " ", "a", "t", " ", " ">>, <<"W", "e", " ", "a", "r", "e", " ", "h",
                                                                                                        "i", "r", "i", "n", "g">>, <<"N", "e", "w", "s">>}
JobUrls == {<<>>, <<"a", "c", "m", "e", ".", "c", "o", "m", "/", "j", "o", "b", "s">>, <<"h", "t", "t", "p", "s", ":", "/", "/",
                                                                                         "w", "w", "w", ".", "a", "c", "m", "e",
                                                                                         ".", "c", "o", "m", "/", "j", "o", "b",
                                                                                         "s">>, <<"H", "T", "T", "P", "S", ":", "/", "/",
                                                                                                  "C", "a", "r", "e", "e", "r", "s", ".",
                                                                                                  "I", "n", "i", "t", "e", "c", "h", ".",
                                                                                                  "i", "o">>,
            <<"h", "t", "t", "p", ":", "/", "/", "[", "x">>}
JobBodies == {<<"A", "p", "p", "l", "y", " ", "n", "o", "w">>, <<>>}

SearchResults == [title : JobTitles, body : JobBodies, href : JobUrls]

InitJobs ==
    /\ job_results \in UNION {[1..n -> SearchResults] : n \in 0..MaxJobResults}
    /\ job_postings = <<>>
    /\ jobpc = "ready"
    /\ CleanIdle
    /\ GenIdle
    /\ CvIdle
    /\ QcIdle
    /\ ConfIdle
    /\ ValIdle
    /\ PersIdle
    /\ PermIdle
    /\ StudioIdle
    /\ FcIdle
    /\ RoleIdle

\* search_jobs when the search returns job_results
SearchJobs ==
    /\ jobpc = "ready"
    /\ job_postings' = JobPostingsOf(job_results)
    /\ jobpc' = "returned"
    /\ UNCHANGED <<job_results, cleanVars, genVars, cvVars, qcVars, confVars, valVars, persVars,
                   permVars, studioVars, fcVars, roleVars>>

\* search_jobs when the search raises: "Job search failed: ..."
SearchJobsFails ==
    /\ jobpc = "ready"
    /\ jobpc' = "raised"
    /\ UNCHANGED <<job_results, job_postings, cleanVars, genVars, cvVars, qcVars, confVars, valVars, persVars,
                   permVars, studioVars, fcVars, roleVars>>

NextJobs == SearchJobs \/ SearchJobsFails

SpecJobs == InitJobs /\ [][NextJobs]_vars

\* C23: every JobPosting returned by search_jobs has a non-empty company,
\* whatever the title and URL of the search res.
CompanyNeverEmpty == \A k \in 1..Len(job_postings) : job_postings[k].company # <<>>

\* A title with " at " and a name behind it gives that name; otherwise a URL with
\* a host gives the capitalized first label of the host
CompanyFromTitleOrHost ==
    \A k \in 1..Len(job_postings) :
        /\ job_postings[k].title = <<"S", "o", "f", "t", "w", "a", "r", "e", " ", "E", "n",
                                     "g", "i", "n", "e", "e", "r", " ", "a", "t", " ", "G",
                                     "o", "o", "g", "l", "e">> =>
              job_postings[k].company = <<"G", "o", "o", "g", "l", "e">>
        /\ job_postings[k].title = <<"W", "e", " ", "a", "r", "e", " ", "h", "i", "r", "i",
                                     "n", "g">> /\ job_postings[k].url = <<"h", "t", "t", "p", "s", ":", "/", "/",
                                                                           "w", "w", "w", ".", "a", "c", "m", "e",
                                                                           ".", "c", "o", "m", "/", "j", "o", "b",
                                                                           "s">> =>
              job_postings[k].company = <<"A", "c", "m", "e">>
        /\ job_postings[k].title = <<"W", "e", " ", "a", "r", "e", " ", "h", "i", "r", "i",
                                     "n", "g">> /\ job_postings[k].url = <<"h", "t", "t", "p", ":", "/", "/", "[",
                                                                           "x">> =>
              job_postings[k].company = UnknownCompany
-----------------------------------------------------------------------------
(* ContactFinder.find_contacts (core/contact_finder.py) *)

IsUpper(c) == \E k \in 1..Len(UpperLetters) : UpperLetters[k] = c

\* " ".join(ws)
JoinBlank(ws) ==
    IF ws = <<>> THEN <<>>
    ELSE Flatten([k \in 1..Len(ws) |-> IF k = 1 THEN ws[k] ELSE <<" ">> \o ws[k]])

\* _extract_name_from_title: None, or the name (which may be empty)
ExtractNameFromTitle(title) ==
    LET parts == Strip(Split(title, <<"|">>)[1])
        words == Words(title)
    IN  IF Contains(title, <<"|">>) /\ Contains(title, <<"L", "i", "n", "k", "e", "d", "I", "n">>) /\ Contains(parts, <<"-">>)
        THEN Str(Strip(Split(parts, <<"-">>)[1]))
        ELSE IF Len(words) >= 2 /\ IsUpper(words[1][1]) /\ IsUpper(words[2][1])
        THEN Str(words[1] \o <<" ">> \o words[2])
        ELSE NoneStr

\* \w
IsWordChar(c) == IsLetter(c) \/ IsDigit(c) \/ c = "_"

\* \b between text[i - 1] and text[i]
WordBoundary(text, i) == IsWordChar(At(text, i - 1)) # IsWordChar(At(text, i))

\* [A-Za-z0-9._%+-]
IsLocalChar(c) == IsLetter(c) \/ IsDigit(c) \/ c \in {".", "_", "%", "+", "-"}

\* [A-Za-z0-9.-]
IsDomainChar(c) == IsLetter(c) \/ IsDigit(c) \/ c \in {".", "-"}

\* [A-Z|a-z]
IsTldChar(c) == IsLetter(c) \/ c = "|"

\* The position after the run of local-part characters that starts at i
RECURSIVE LocalRunEnd(_, _)
LocalRunEnd(text, i) ==
    IF i <= Len(text) /\ IsLocalChar(text[i]) THEN LocalRunEnd(text, i + 1) ELSE i

\* The position after the run of domain characters that starts at i
RECURSIVE DomainRunEnd(_, _)
DomainRunEnd(text, i) ==
    IF i <= Len(text) /\ IsDomainChar(text[i]) THEN DomainRunEnd(text, i + 1) ELSE i

\* The position after the run of [A-Z|a-z] that starts at i
RECURSIVE TldRunEnd(_, _)
TldRunEnd(text, i) ==
    IF i <= Len(text) /\ IsTldChar(text[i]) THEN TldRunEnd(text, i + 1) ELSE i

\* [A-Z|a-z]{2,}\b from position first, greedy: the last position of the longest
\* ending that a word boundary follows, tried from e downwards; 0 without one
RECURSIVE TldEnd(_, _, _)
TldEnd(text, first, e) ==
    IF e < first + 1 THEN 0
    ELSE IF WordBoundary(text, e + 1) THEN e
    ELSE TldEnd(text, first, e - 1)

\* [A-Za-z0-9.-]+\.[A-Z|a-z]{2,}\b from position first, greedy: the domain part
\* ends at p or before; the last position of the match, 0 without one
RECURSIVE DomainEnd(_, _, _)
DomainEnd(text, first, p) ==
    IF p < first THEN 0
    ELSE IF At(text, p + 1) = "." /\ TldEnd(text, p + 2, TldRunEnd(text, p + 2) - 1) > 0
    THEN TldEnd(text, p + 2, TldRunEnd(text, p + 2) - 1)
    ELSE DomainEnd(text, first, p - 1)

\* The last position of the match of email_pattern that starts at i, 0 without one
EmailEnd(text, i) ==
    IF /\ WordBoundary(text, i)
       /\ LocalRunEnd(text, i) > i
       /\ At(text, LocalRunEnd(text, i)) = "@"
    THEN DomainEnd(text, LocalRunEnd(text, i) + 1, DomainRunEnd(text, LocalRunEnd(text, i) + 1) - 1)
    ELSE 0

\* The first match of email_pattern at position i or behind it
RECURSIVE FirstEmailFrom(_, _)
FirstEmailFrom(text, i) ==
    IF i > Len(text) THEN NoneStr
    ELSE IF EmailEnd(text, i) > 0 THEN Str(SubSeq(text, i, EmailEnd(text, i)))
    ELSE FirstEmailFrom(text, i + 1)

\* _extract_email: re.findall(email_pattern, text)[0], None without a match
ExtractEmail(text) == FirstEmailFrom(text, 1)

RoleKeywords ==
    <<<<"M", "a", "n", "a", "g", "e", "r">>, <<"D", "i", "r", "e", "c", "t", "o", "r">>, <<"L", "e", "a", "d">>, <<"E", "n", "g", "i", "n", "e", "e", "r">>, <<"R", "e", "c", "r", "u", "i", "t", "e",
                                                                                                                                                               "r">>, <<"V", "P">>, <<"H", "e", "a", "d">>, <<"C", "h", "i", "e", "f">>,
      <<"S", "e", "n", "i", "o", "r">>, <<"P", "r", "i", "n", "c", "i", "p", "a", "l">>>>

UnknownRole == <<"U", "n", "k", "n", "o", "w", "n", " ", "R", "o", "l", "e">>

\* The phrase of _extract_role for the keyword, <<>> when the loop over the words
\* of the title returns nothing
RolePhrase(title, keyword) ==
    LET words == Words(title)
        hits == {i \in 2..Len(words) : Contains(words[i], keyword)}
    IN  IF hits = {} THEN <<>>
        ELSE JoinBlank(SubSeq(words, Min(hits) - 1, Least(Min(hits) + 1, Len(words))))

\* _extract_role
ExtractRole(title, snippet) ==
    LET combined == title \o <<" ">> \o snippet
        found == {k \in 1..Len(RoleKeywords) :
                     Contains(combined, RoleKeywords[k]) /\ RolePhrase(title, RoleKeywords[k]) # <<>>}
    IN  IF found = {} THEN UnknownRole ELSE RolePhrase(title, RoleKeywords[Min(found)])

LinkedinHost == <<"l", "i", "n", "k", "e", "d", "i", "n", ".", "c", "o", "m">>

NoContact ==
    [none |-> TRUE, name |-> <<>>, role |-> <<>>, email |-> NoneStr, email_confidence |-> "",
     linkedin |-> NoneStr, source |-> <<>>, confidence_score |-> 0]

\* if name is None
NameIsNone(name) == name.none

\* if not name
NameMissing(name) == ~Truthy(name)

\* _extract_contact_from_result
ExtractContactFromResult(res, company_name) ==
    LET name == ExtractNameFromTitle(res.title)
        email == ExtractEmail(res.title \o <<" ">> \o res.body)
        linkedin_url == IF Contains(res.href, LinkedinHost) THEN Str(res.href) ELSE NoneStr
    IN  IF NameMissing(name) THEN NoContact
        ELSE [none |-> FALSE,
              name |-> name.text,
              role |-> ExtractRole(res.title, res.body),
              email |-> email,
              email_confidence |-> IF Truthy(email) THEN "confirmed" ELSE "unknown",
              linkedin |-> linkedin_url,
              source |-> res.href,
              confidence_score |-> CalculateConfidence(email, linkedin_url, company_name,
                                                       res.body)]

SearchRoleKeywords ==
    <<<<"e", "n", "g", "i", "n", "e", "e", "r">>, <<"d", "e", "v", "e", "l", "o", "p", "e", "r">>, <<"m", "a", "n", "a", "g", "e", "r">>, <<"l", "e", "a", "d">>, <<"s", "c", "i", "e", "n", "t", "i", "s",
                                                                                                                                                                    "t">>, <<"a", "n", "a", "l", "y", "s", "t">>, <<"d", "e", "s", "i", "g", "n", "e", "r">>>>

\* _extract_role_keyword
ExtractRoleKeyword(job_title) ==
    LET found == {k \in 1..Len(SearchRoleKeywords) :
                     Contains(Lower(job_title), SearchRoleKeywords[k])}
        words == Words(job_title)
    IN  IF found # {} THEN SearchRoleKeywords[Min(found)]
        ELSE IF words # <<>> THEN words[1] ELSE <<"m", "a", "n", "a", "g", "e", "r">>

\* The queries of the except clause
DefaultQueries(company_name, role_keyword) ==
    <<company_name \o <<" ", "h", "i", "r", "i", "n", "g", " ", "m", "a", "n", "a", "g", "e",
                        "r", " ">> \o role_keyword,
      <<"s", "i", "t", "e", ":", "l", "i", "n", "k", "e", "d", "i", "n", ".", "c", "o", "m",
        "/", "i", "n", " ">> \o company_name \o <<" ", "r", "e", "c", "r", "u", "i", "t", "e",
                                                  "r">>,
      company_name \o <<" ", "e", "n", "g", "i", "n", "e", "e", "r", "i", "n", "g", " ", "m",
                        "a", "n", "a", "g", "e", "r">>>>

\* queries[:3]
QueryLimit == 3

\* After the except clause of the loop, had it ended the loop
StopAfterError(i, n) == n + 1

\* except Exception: continue: the loop goes on with the next query
NextQueryAfterError(i, n) == i + 1

\* Results of the web search
Hits ==
    {[title |-> <<"J", "a", "n", "e", " ", "D", "o", "e", " ", "-", " ", "E", "n", "g", "i",
                  "n", "e", "e", "r", "i", "n", "g", " ", "M", "a", "n", "a", "g", "e", "r",
                  " ", "|", " ", "L", "i", "n", "k", "e", "d", "I", "n">>, body |-> <<"J", "a", "n", "e", " ", "a", "t", " ",
                                                                                      "A", "c", "m", "e">>,
      href |-> <<"h", "t", "t", "p", "s", ":", "/", "/", "l", "i", "n", "k", "e", "d", "i",
                 "n", ".", "c", "o", "m", "/", "i", "n", "/", "j", "a", "n", "e">>],
     [title |-> <<"J", "a", "n", "e", " ", "D", "o", "e", " ", "S", "e", "n", "i", "o", "r",
                  " ", "R", "e", "c", "r", "u", "i", "t", "e", "r">>, body |-> <<"j", "a", "n", "e", ".", "d", "o", "e",
                                                                                 "@", "a", "c", "m", "e", ".", "c", "o",
                                                                                 "m">>,
      href |-> <<"h", "t", "t", "p", "s", ":", "/", "/", "a", "c", "m", "e", ".", "c", "o",
                 "m", "/", "t", "e", "a", "m">>],
     [title |-> <<"-", " ", "R", "e", "c", "r", "u", "i", "t", "e", "r", " ", "|", " ", "L",
                  "i", "n", "k", "e", "d", "I", "n">>, body |-> <<>>,
      href |-> <<"h", "t", "t", "p", "s", ":", "/", "/", "l", "i", "n", "k", "e", "d", "i",
                 "n", ".", "c", "o", "m", "/", "i", "n", "/", "x">>],
     [title |-> <<"J", "o", "h", "n", " ", "S", "m", "i", "t", "h">>, body |-> <<"H", "e", "a", "d", " ", "o", "f", " ",
                                                                                 "T", "a", "l", "e", "n", "t", ",", " ",
                                                                                 "j", "o", "h", "n", "@", "a", "c", "m",
                                                                                 "e", ".", "c", "o", "m">>,
      href |-> <<"h", "t", "t", "p", "s", ":", "/", "/", "a", "c", "m", "e", ".", "c", "o",
                 "m", "/", "j", "o", "h", "n">>],
     [title |-> <<"M", "a", "n", "a", "g", "e", "r", " ", "B", "o", "b", " ", "L", "e", "e">>, body |-> <<>>, href |-> <<>>]}

Companies == {<<"A", "c", "m", "e">>}

\* _extract_contact_from_result on each of the results, with the test whether
\* the name found in its title is the empty string
ContactsOf(company_name) ==
    [res \in Hits |->
        [contact |-> ExtractContactFromResult(res, company_name),
         empty_name |-> ExtractNameFromTitle(res.title) = Str(<<>>)]]

\* The loop over the results of one search: found holds contacts, seen_names and
\* the number of results met whose name was the empty string; broke says that the
\* loop ended with break
RECURSIVE AddContacts(_, _, _)
AddContacts(results, found, max_results) ==
    IF results = <<>> THEN found
    ELSE LET contact == extracted[Head(results)].contact
             add == ~contact.none /\ contact.name \notin found.seen_names
             next == [contacts |-> IF add THEN Append(found.contacts, contact)
                                   ELSE found.contacts,
                      seen_names |-> IF add THEN found.seen_names \cup {contact.name}
                                     ELSE found.seen_names,
                      empty_names |-> found.empty_names +
                          (IF extracted[Head(results)].empty_name THEN 1 ELSE 0),
                      broke |-> Len(IF add THEN Append(found.contacts, contact)
                                    ELSE found.contacts) >= max_results]
         IN  IF next.broke THEN next
             ELSE AddContacts(Tail(results), next, max_results)

MaxHits == 2
MaxResultsArg == 2

HitSeqs == UNION {[1..n -> Hits] : n \in 0..MaxHits}

\* The values of the object that generate_json returns (generate_json returns a
\* dict or raises)
LlmQueries == <<<<"q", "u", "e", "r", "y", " ", "1">>, <<"q", "u", "e", "r", "y", " ", "2">>, <<"q", "u", "e", "r", "y", " ", "3">>, <<"q", "u", "e", "r", "y", " ", "4">>>>
LlmQueryCounts == {0, 2, 4}

InitContacts ==
    /\ fc_args \in [company_name : Companies,
                    job_title : {<<"S", "e", "n", "i", "o", "r", " ", "M", "L", " ", "E", "n",
                                   "g", "i", "n", "e", "e", "r">>, <<"C", "h", "i", "e", "f", " ", "o", "f",
                                                                     " ", "S", "t", "a", "f", "f">>},
                    max_results : 0..MaxResultsArg]
    /\ extracted = ContactsOf(fc_args.company_name)
    /\ queries = <<>>
    /\ gen_failed = FALSE
    /\ qi = 0
    /\ contacts = <<>>
    /\ seen_names = {}
    /\ searches = <<>>
    /\ fcpc = "ready"
    /\ CleanIdle
    /\ GenIdle
    /\ CvIdle
    /\ QcIdle
    /\ ConfIdle
    /\ ValIdle
    /\ PersIdle
    /\ PermIdle
    /\ StudioIdle
    /\ JobIdle
    /\ RoleIdle

\* find_contacts up to its loop over the queries, generate_json returning an
\* object with n values
FindContacts(n) ==
    /\ fcpc = "ready"
    /\ queries' = FirstN(LlmQueries, n)
    /\ gen_failed' = FALSE
    /\ qi' = 1
    /\ contacts' = <<>>
    /\ seen_names' = {}
    /\ fcpc' = IF n = 0 THEN "returned" ELSE "loop"
    /\ UNCHANGED <<fc_args, extracted, searches, cleanVars, genVars, cvVars, qcVars, confVars, valVars, persVars,
                   permVars, studioVars, jobVars, roleVars>>

\* find_contacts up to its loop over the queries, generate_json raising
FindContactsDefaultQueries ==
    /\ fcpc = "ready"
    /\ queries' = DefaultQueries(fc_args.company_name, ExtractRoleKeyword(fc_args.job_title))
    /\ gen_failed' = TRUE
    /\ qi' = 1
    /\ contacts' = <<>>
    /\ seen_names' = {}
    /\ fcpc' = "loop"
    /\ UNCHANGED <<fc_args, extracted, searches, cleanVars, genVars, cvVars, qcVars, confVars, valVars, persVars,
                   permVars, studioVars, jobVars, roleVars>>

\* One pass through the loop body, the search returning results; then the test
\* that ends the loop, or the return after the last query
Search(results) ==
    /\ fcpc = "loop"
    /\ LET out == AddContacts(results, [contacts |-> contacts, seen_names |-> seen_names,
                                        empty_names |-> 0, broke |-> FALSE],
                              fc_args.max_results)
       IN  /\ contacts' = out.contacts
           /\ seen_names' = out.seen_names
           /\ searches' = Append(searches, [query |-> queries[qi], raised |-> FALSE,
                                            empty_names |-> out.empty_names])
           /\ qi' = qi + 1
           /\ fcpc' = IF Len(out.contacts) >= fc_args.max_results
                         \/ qi + 1 > Least(QueryLimit, Len(queries))
                      THEN "returned" ELSE "loop"
    /\ UNCHANGED <<fc_args, extracted, queries, gen_failed, cleanVars, genVars, cvVars, qcVars, confVars, valVars, persVars,
                   permVars, studioVars, jobVars, roleVars>>

\* One pass through the loop body, the search raising after it has yielded results
\* (none when the call itself raises), the loop over them not ended by break
SearchFails(results) ==
    /\ fcpc = "loop"
    /\ LET out == AddContacts(results, [contacts |-> contacts, seen_names |-> seen_names,
                                        empty_names |-> 0, broke |-> FALSE],
                              fc_args.max_results)
           next == NextQueryAfterError(qi, Least(QueryLimit, Len(queries)))
       IN  /\ ~out.broke
           /\ contacts' = out.contacts
           /\ seen_names' = out.seen_names
           /\ searches' = Append(searches, [query |-> queries[qi], raised |-> TRUE,
                                            empty_names |-> out.empty_names])
           /\ qi' = next
           /\ fcpc' = IF next > Least(QueryLimit, Len(queries)) THEN "returned" ELSE "loop"
    /\ UNCHANGED <<fc_args, extracted, queries, gen_failed, cleanVars, genVars, cvVars, qcVars, confVars, valVars, persVars,
                   permVars, studioVars, jobVars, roleVars>>

NextContacts ==
    \/ \E n \in LlmQueryCounts : FindContacts(n)
    \/ FindContactsDefaultQueries
    \/ \E results \in HitSeqs : Search(results)
    \/ \E results \in HitSeqs : SearchFails(results)

SpecContacts == InitContacts /\ [][NextContacts]_vars

\* C24: no contact returned by find_contacts has an absent or empty name.
ContactsAreNamed ==
    \A k \in 1..Len(contacts) : ~contacts[k].none /\ contacts[k].name # <<>>

EmptyNameSkipped ==
    /\ fcpc = "returned"
    /\ \E k \in 1..Len(searches) : searches[k].empty_names > 0
    /\ Len(contacts) = 2

\* C26: the contacts returned are ranked by confidence_score, highest first.
ContactsRankedByConfidence ==
    fcpc = "returned" =>
        \A i \in 1..Len(contacts) : \A j \in i..Len(contacts) :
            contacts[i].confidence_score >= contacts[j].confidence_score

\* C27: find_contacts returns at most max_results contacts, no two of them with
\* the same name.
AtMostMaxResultsDistinctNames ==
    fcpc = "returned" =>
        /\ Len(contacts) <= fc_args.max_results
        /\ \A i \in 1..Len(contacts) : \A j \in 1..Len(contacts) :
              contacts[i].name = contacts[j].name => i = j

\* For max_results of one or more the bound holds, and names are never repeated
AtMostMaxResultsWhenPositive ==
    /\ fc_args.max_results >= 1 => Len(contacts) <= fc_args.max_results
    /\ \A i \in 1..Len(contacts) : \A j \in 1..Len(contacts) :
          contacts[i].name = contacts[j].name => i = j

\* C28: when query generation fails the three default queries are used and
\* find_contacts goes on; when the search for a query raises, the contacts found
\* so far are kept and the next query is still issued, up to three queries.
SearchFailuresIsolated ==
    /\ [](gen_failed =>
            /\ fcpc \in {"loop", "returned"}
            /\ Len(queries) = 3
            /\ queries[1] = IF fc_args.job_title = <<"S", "e", "n", "i", "o", "r", " ", "M",
                                                     "L", " ", "E", "n", "g", "i", "n", "e",
                                                     "e", "r">>
                            THEN <<"A", "c", "m", "e", " ", "h", "i", "r", "i", "n", "g", " ",
                                   "m", "a", "n", "a", "g", "e", "r", " ", "e", "n", "g", "i",
                                   "n", "e", "e", "r">>
                            ELSE <<"A", "c", "m", "e", " ", "h", "i", "r", "i", "n", "g", " ",
                                   "m", "a", "n", "a", "g", "e", "r", " ", "C", "h", "i", "e",
                                   "f">>
            /\ queries[2] = <<"s", "i", "t", "e", ":", "l", "i", "n", "k", "e", "d", "i", "n",
                              ".", "c", "o", "m", "/", "i", "n", " ", "A", "c", "m", "e", " ",
                              "r", "e", "c", "r", "u", "i", "t", "e", "r">>
            /\ queries[3] = <<"A", "c", "m", "e", " ", "e", "n", "g", "i", "n", "e", "e", "r",
                              "i", "n", "g", " ", "m", "a", "n", "a", "g", "e", "r">>)
    /\ [](fcpc = "returned" =>
            /\ Len(searches) <= QueryLimit
            /\ \A k \in 1..Len(searches) :
                  searches[k].raised /\ k < Least(3, Len(queries)) => Len(searches) > k
            /\ Len(contacts) < fc_args.max_results => Len(searches) = Least(3, Len(queries)))
    /\ [][fcpc = "loop" => /\ Len(contacts') >= Len(contacts)
                           /\ SubSeq(contacts', 1, Len(contacts)) = contacts]_vars

SearchGoesOnAfterFailure ==
    /\ fcpc = "returned"
    /\ gen_failed
    /\ Len(searches) = 3
    /\ ~searches[1].raised
    /\ searches[2].raised
    /\ ~searches[3].raised
    /\ Len(contacts) = 2
-----------------------------------------------------------------------------
(* ContactFinder._extract_role on its own *)

RoleTitles ==
    {<<"J", "a", "n", "e", " ", "D", "o", "e", " ", "-", " ", "E", "n", "g", "i", "n", "e",
       "e", "r", "i", "n", "g", " ", "M", "a", "n", "a", "g", "e", "r", " ", "|", " ", "L",
       "i", "n", "k", "e", "d", "I", "n">>, <<"J", "a", "n", "e", " ", "D", "o", "e", " ", "S",
                                              "e", "n", "i", "o", "r", " ", "R", "e", "c", "r",
                                              "u", "i", "t", "e", "r">>, <<"J", "o", "h", "n", " ", "S", "m", "i",
                                                                           "t", "h">>,
     <<"M", "a", "n", "a", "g", "e", "r", " ", "B", "o", "b", " ", "L", "e", "e">>, <<"L", "e", "a", "d">>, <<"V", "P", " ", "S", "a", "l", "e", "s",
                                                                                                              " ", "L", "e", "a", "d", " ", "E", "n",
                                                                                                              "g", "i", "n", "e", "e", "r">>, <<"T", "e", "a", "m", " ", "L", "e", "a",
                                                                                                                                                "d", "e", "r", " ", "A", "n", "n", "a">>,
     <<"A", " ", "H", "e", "a", "d", "l", "e", "s", "s", " ", "P", "r", "i", "n", "c", "i",
       "p", "a", "l">>, <<>>, <<"c", "a", "r", "e", "e", "r", "s", " ", "p", "a", "g", "e">>}

RoleSnippets ==
    {<<>>, <<"J", "a", "n", "e", " ", "a", "t", " ", "A", "c", "m", "e">>, <<"H", "e", "a", "d", " ", "o", "f", " ",
                                                                             "T", "a", "l", "e", "n", "t", ",", " ",
                                                                             "j", "o", "h", "n", "@", "a", "c", "m",
                                                                             "e", ".", "c", "o", "m">>, <<"P", "r", "i", "n", "c", "i", "p", "a",
                                                                                                          "l">>, <<"s", "e", "n", "i", "o", "r", " ", "m",
                                                                                                                   "a", "n", "a", "g", "e", "r">>,
     <<"C", "h", "i", "e", "f">>}

InitRole ==
    /\ role_args \in [title : RoleTitles, snippet : RoleSnippets]
    /\ role_out = <<>>
    /\ rolepc = "ready"
    /\ CleanIdle
    /\ GenIdle
    /\ CvIdle
    /\ QcIdle
    /\ ConfIdle
    /\ ValIdle
    /\ PersIdle
    /\ PermIdle
    /\ StudioIdle
    /\ JobIdle
    /\ FcIdle

ExtractRoleCall ==
    /\ rolepc = "ready"
    /\ role_out' = ExtractRole(role_args.title, role_args.snippet)
    /\ rolepc' = "returned"
    /\ UNCHANGED <<role_args, cleanVars, genVars, cvVars, qcVars, confVars, valVars, persVars,
                   permVars, studioVars, jobVars, fcVars>>

NextRole == ExtractRoleCall

SpecRole == InitRole /\ [][NextRole]_vars

\* The keywords that occur in the title or the snippet
KeywordsIn(title, snippet) ==
    {k \in 1..Len(RoleKeywords) :
        Contains(title, RoleKeywords[k]) \/ Contains(snippet, RoleKeywords[k])}

\* C25: _extract_role returns "Unknown Role" only when none of the ten keywords
\* occurs in the title or the snippet; whenever one occurs, at any position of the
\* title or in the snippet only, it returns a phrase that contains a keyword.
RoleUnknownOnlyWithoutKeyword ==
    rolepc = "returned" =>
        LET occurring == KeywordsIn(role_args.title, role_args.snippet)
        IN  /\ role_out = UnknownRole => occurring = {}
            /\ occurring # {} => \E k \in occurring : Contains(role_out, RoleKeywords[k])

\* A keyword in a word of the title other than the first gives a phrase around it;
\* without any keyword the role is "Unknown Role"
RoleFoundBehindFirstWord ==
    rolepc = "returned" =>
        /\ KeywordsIn(role_args.title, role_args.snippet) = {} => role_out = UnknownRole
        /\ role_args.title = <<"J", "a", "n", "e", " ", "D", "o", "e", " ", "S", "e", "n", "i",
                               "o", "r", " ", "R", "e", "c", "r", "u", "i", "t", "e", "r">> => role_out = <<"S", "e", "n", "i", "o", "r", " ", "R",
                                                                                                            "e", "c", "r", "u", "i", "t", "e", "r">>
        /\ role_args.title = <<"M", "a", "n", "a", "g", "e", "r", " ", "B", "o", "b", " ", "L",
                               "e", "e">> /\ role_args.snippet = <<>> =>
              role_out = UnknownRole
        /\ role_args.title = <<"J", "o", "h", "n", " ", "S", "m", "i", "t", "h">> /\ role_args.snippet = <<"C", "h", "i", "e", "f">> =>
              role_out = UnknownRole

====
